---- MODULE Spec2Model ----
(***************************************************************************)
(* Model of verification/python/verification.py of pattern-engine:         *)
(*   - the verifier registry VERIFICATION_FUNCTIONS and its three          *)
(*     operations (get / register / unregister), with scanning threads     *)
(*     that look a verifier up, hold the reference and call it;            *)
(*   - the reference-data cache _DATA_CACHE and _load_data_file, executed  *)
(*     step by step by several threads while the data files change;        *)
(*   - the verifiers luhn, korean_zipcode_valid and us_zipcode_valid as    *)
(*     operators over strings (sequences of one-character strings).        *)
(*                                                                         *)
(* A Python str is a sequence of characters; a character is a string       *)
(* naming it.  Besides ASCII characters the alphabet holds two non-ASCII   *)
(* characters that str.isdigit() accepts:                                  *)
(*   "sup2"  U+00B2 SUPERSCRIPT TWO    isdigit() true, int() raises        *)
(*   "ar3"   U+0663 ARABIC-INDIC THREE isdigit() true, int() = 3           *)
(*   "ar4"   U+0664 ARABIC-INDIC FOUR  isdigit() true, int() = 4           *)
(* and one non-ASCII letter, "Eacute" U+00C9 (lower case "eacute" U+00E9). *)
(***************************************************************************)
EXTENDS Integers, Sequences, FiniteSets, TLC

VARIABLES
    \* ---- registry ----
    VERIFICATION_FUNCTIONS, \* dict: name -> function (a function is named by its def)
    everBound,              \* history: name -> set of functions ever bound to it
    regOp,                  \* history: the last register/unregister call
    scan,                   \* scanning thread -> [pc, name, fn, value, result]
    removal,                \* unregistering thread -> [pc, name, found, outcome]
    \* ---- reference data cache ----
    DATA_CACHE,             \* dict: filename -> set of values
    file,                   \* environment: filename -> state of the file on disk
    fileChanges,            \* number of changes made to the files so far
    reads,                  \* history: filename -> number of open()+readlines()
    writes,                 \* history: filename -> number of cache stores
    loader,                 \* thread -> state of its verifier call
    \* ---- luhn ----
    base,                   \* the digit string d
    value,                  \* d with separators inserted
    outcome,                \* luhn(value), once called
    baseOutcome,            \* luhn(base), once called
    \* ---- one call of a built-in verifier ----
    verifier,               \* the name of the verifier that is called
    original,               \* the text before characters were inserted
    text,                   \* the text the verifier is called on
    result,                 \* the outcome of verifier(text), once called
    calls                   \* history: the registry and the outcome of each call
                            \* made while the registry is rebound

regVars  == <<VERIFICATION_FUNCTIONS, everBound, regOp, scan, removal>>
dataVars == <<DATA_CACHE, file, fileChanges, reads, writes, loader>>
luhnVars == <<base, value, outcome, baseOutcome>>
callVars == <<verifier, original, text, result, calls>>
vars     == <<regVars, dataVars, luhnVars, callVars>>

-----------------------------------------------------------------------------
(* Bounds *)

MaxLen == 4
MaxRegOps == 2
MaxFileChanges == 1
MaxCalls == 2
MaxInserts == 1

-----------------------------------------------------------------------------
(* Characters and outcomes of a call *)

AsciiDigit == {"0", "1", "2", "3", "4", "5", "6", "7", "8", "9"}

\* The characters str.isdigit() accepts.
Digit == AsciiDigit \cup {"sup2", "ar3", "ar4"}

\* Characters str.isdigit() rejects: separators, a letter.
Separator == {"-", " ", "a"}

\* str.isdigit()
isdigit(c) == c \in Digit

\* int(c) succeeds exactly for the decimal digits (Unicode category Nd).
isdecimal(c) == c \in AsciiDigit \cup {"ar3", "ar4"}

\* int(c) of a one-character string; the Unicode digit value for "sup2",
\* on which int() itself raises.
int(c) ==
    CASE c = "0" -> 0 [] c = "1" -> 1 [] c = "2" -> 2 [] c = "3" -> 3
      [] c = "4" -> 4 [] c = "5" -> 5 [] c = "6" -> 6 [] c = "7" -> 7
      [] c = "8" -> 8 [] c = "9" -> 9 [] c = "ar3" -> 3 [] c = "ar4" -> 4
      [] c = "sup2" -> 2

\* A call either returns a boolean or raises.
Return(b) == [exc |-> "none", ret |-> b]
Raise(e)  == [exc |-> e, ret |-> FALSE]
NotCalled == [exc |-> "not called", ret |-> FALSE]

-----------------------------------------------------------------------------
(* luhn, verification.py:98-127 *)

\* The loop of lines 117-125 over reverse_digits[0..k-1]; digits is the list
\* of line 111.
RECURSIVE luhn_checksum(_, _)
luhn_checksum(digits, k) ==
    IF k = 0 THEN 0
    ELSE LET i      == k - 1
             digit  == digits[Len(digits) - i]
             dbl    == IF 2 * digit > 9 THEN 2 * digit - 9 ELSE 2 * digit
         IN  luhn_checksum(digits, k - 1) + (IF i % 2 = 1 THEN dbl ELSE digit)

\* A luhn that doubles by the position in the raw string, separators
\* counted, instead of by the position among the digits.
RECURSIVE luhn_checksum_positional(_, _)
luhn_checksum_positional(v, k) ==
    IF k = 0 THEN 0
    ELSE LET i   == k - 1
             c   == v[Len(v) - i]
             dbl == IF 2 * int(c) > 9 THEN 2 * int(c) - 9 ELSE 2 * int(c)
         IN  luhn_checksum_positional(v, k - 1)
             + (IF ~isdigit(c) THEN 0 ELSE IF i % 2 = 1 THEN dbl ELSE int(c))

luhn_positional(v) ==
    IF \E i \in 1..Len(v) : isdigit(v[i]) /\ ~isdecimal(v[i])
    THEN Raise("ValueError")
    ELSE IF SelectSeq(v, isdigit) = <<>>
    THEN Return(FALSE)
    ELSE Return(luhn_checksum_positional(v, Len(v)) % 10 = 0)

luhn(v) ==
    LET ds == SelectSeq(v, isdigit)
    IN  IF \E i \in 1..Len(ds) : ~isdecimal(ds[i])
        THEN Raise("ValueError")
        ELSE LET digits == [i \in 1..Len(ds) |-> int(ds[i])]
             IN  IF Len(digits) = 0
                 THEN Return(FALSE)
                 ELSE Return(luhn_checksum(digits, Len(digits)) % 10 = 0)

-----------------------------------------------------------------------------
(* Specification of luhn: a digit string, separators inserted, one call *)

InsertAt(s, i, c) == SubSeq(s, 1, i) \o <<c>> \o SubSeq(s, i + 1, Len(s))

InitLuhn ==
    /\ base \in UNION {[1..n -> Digit] : n \in 0..MaxLen}
    /\ value = base
    /\ outcome = NotCalled
    /\ baseOutcome = NotCalled

InsertSeparator ==
    /\ outcome = NotCalled
    /\ Len(value) < MaxLen
    /\ \E i \in 0..Len(value), c \in Separator : value' = InsertAt(value, i, c)
    /\ UNCHANGED <<base, outcome, baseOutcome, regVars, dataVars, callVars>>

CallLuhn ==
    /\ outcome = NotCalled
    /\ outcome' = luhn(value)
    /\ baseOutcome' = luhn(base)
    /\ UNCHANGED <<base, value, regVars, dataVars, callVars>>

-----------------------------------------------------------------------------
(* The registry, verification.py:1837-1926 *)

\* dict.get's default, and the return value of a function without return.
None == "None"

BuiltinNames ==
    {"iban_mod97", "luhn", "dms_coordinate", "high_entropy_token",
     "not_timestamp", "korean_zipcode_valid", "us_zipcode_valid",
     "korean_bank_account_valid", "generic_number_not_timestamp",
     "contains_letter", "us_ssn_valid", "cjk_name_standalone",
     "cn_national_id_valid", "tw_national_id_valid", "india_aadhaar_valid",
     "india_pan_valid", "kr_business_registration_valid", "ipv4_public",
     "not_repeating_pattern", "credit_card_bin_valid", "kr_rrn_valid",
     "kr_alien_registration_valid", "kr_corporate_registration_valid",
     "jp_my_number_valid", "spain_dni_valid", "spain_nie_valid",
     "netherlands_bsn_valid", "poland_pesel_valid",
     "sweden_personnummer_valid", "france_insee_valid", "belgium_rrn_valid",
     "finland_hetu_valid"}

\* The registry at import: every built-in bound under its own name.
BuiltinRegistry == [n \in BuiltinNames |-> n]

\* The names and functions that callers of the registry pass in.
RegNames   == {"luhn", "custom_test", "temp_test"}
RegFuncs   == {"custom_verify", "temp_verify"}
ScanNames  == RegNames \cup {"nonexistent"}
ScanValues == {<<"c", "u", "s", "t", "o", "m">>, <<"1", "-", "8">>}
Scanners   == {"s1", "s2"}
Removers   == {"u1", "u2"}

\* test_verification.py:981 and :995, the functions the tests register.
custom_verify(v) == Return(v = <<"c", "u", "s", "t", "o", "m">>)
temp_verify(v)   == Return(TRUE)

\* Calling the function object fn on v.
Apply(fn, v) ==
    CASE fn = "luhn"          -> luhn(v)
      [] fn = "custom_verify" -> custom_verify(v)
      [] fn = "temp_verify"   -> temp_verify(v)

\* A lookup that falls back to a default verifier for an unbound name.
get_or_default(registry, name) ==
    IF name \in DOMAIN registry THEN registry[name] ELSE "luhn"

\* VERIFICATION_FUNCTIONS.get(name)
get_verification_function(registry, name) ==
    IF name \in DOMAIN registry THEN registry[name] ELSE None

\* VERIFICATION_FUNCTIONS[name] = func
SetItem(registry, name, func) ==
    [n \in DOMAIN registry \cup {name} |-> IF n = name THEN func ELSE registry[n]]

\* del VERIFICATION_FUNCTIONS[name]
DelItem(registry, name) ==
    [n \in DOMAIN registry \ {name} |-> registry[n]]

Bound(h, name) == IF name \in DOMAIN h THEN h[name] ELSE {}

\* A registration that keeps an existing binding (dict.setdefault).
register_setdefault(name, func) ==
    /\ regOp.seq < MaxRegOps
    /\ VERIFICATION_FUNCTIONS' =
           IF name \in DOMAIN VERIFICATION_FUNCTIONS THEN VERIFICATION_FUNCTIONS
           ELSE SetItem(VERIFICATION_FUNCTIONS, name, func)
    /\ everBound' = SetItem(everBound, name, Bound(everBound, name) \cup {func})
    /\ regOp' = [seq |-> regOp.seq + 1, kind |-> "register", name |-> name,
                 func |-> func, before |-> VERIFICATION_FUNCTIONS,
                 exc |-> "none", ret |-> FALSE]
    /\ UNCHANGED <<scan, removal, dataVars, luhnVars, callVars>>

\* register_verification_function(name, func); register and unregister
\* calls are serialised by their callers, lookups are not.
register_verification_function(name, func) ==
    /\ regOp.seq < MaxRegOps
    /\ VERIFICATION_FUNCTIONS' = SetItem(VERIFICATION_FUNCTIONS, name, func)
    /\ everBound' = SetItem(everBound, name, Bound(everBound, name) \cup {func})
    /\ regOp' = [seq |-> regOp.seq + 1, kind |-> "register", name |-> name,
                 func |-> func, before |-> VERIFICATION_FUNCTIONS,
                 exc |-> "none", ret |-> FALSE]
    /\ UNCHANGED <<scan, removal, dataVars, luhnVars, callVars>>

\* An unregistration that reports success whether or not it removed an entry.
unregister_always_true(name) ==
    /\ regOp.seq < MaxRegOps
    /\ VERIFICATION_FUNCTIONS' =
           IF name \in DOMAIN VERIFICATION_FUNCTIONS
           THEN DelItem(VERIFICATION_FUNCTIONS, name)
           ELSE VERIFICATION_FUNCTIONS
    /\ regOp' = [seq |-> regOp.seq + 1, kind |-> "unregister", name |-> name,
                 func |-> None, before |-> VERIFICATION_FUNCTIONS,
                 exc |-> "none", ret |-> TRUE]
    /\ UNCHANGED <<everBound, scan, removal, dataVars, luhnVars, callVars>>

\* unregister_verification_function(name)
unregister_verification_function(name) ==
    /\ regOp.seq < MaxRegOps
    /\ IF name \in DOMAIN VERIFICATION_FUNCTIONS
       THEN /\ VERIFICATION_FUNCTIONS' = DelItem(VERIFICATION_FUNCTIONS, name)
            /\ regOp' = [seq |-> regOp.seq + 1, kind |-> "unregister",
                         name |-> name, func |-> None,
                         before |-> VERIFICATION_FUNCTIONS,
                         exc |-> "none", ret |-> TRUE]
       ELSE /\ UNCHANGED VERIFICATION_FUNCTIONS
            /\ regOp' = [seq |-> regOp.seq + 1, kind |-> "unregister",
                         name |-> name, func |-> None,
                         before |-> VERIFICATION_FUNCTIONS,
                         exc |-> "none", ret |-> FALSE]
    /\ UNCHANGED <<everBound, scan, removal, dataVars, luhnVars, callVars>>

\* A scanning thread (test_patterns.py:263-282): look the verifier up once,
\* keep the reference, call it on the matched text.
Lookup(t, name, v) ==
    /\ scan[t].pc = "idle"
    /\ scan' = [scan EXCEPT ![t] =
                  [pc |-> "holding", name |-> name, value |-> v,
                   fn |-> get_verification_function(VERIFICATION_FUNCTIONS, name),
                   result |-> NotCalled]]
    /\ UNCHANGED <<VERIFICATION_FUNCTIONS, everBound, regOp, removal, dataVars, luhnVars,
                   callVars>>

\* `if has_verification and verification_func:` fails, nothing is called.
SkipCall(t) ==
    /\ scan[t].pc = "holding"
    /\ scan[t].fn = None
    /\ scan' = [scan EXCEPT ![t].pc = "done"]
    /\ UNCHANGED <<VERIFICATION_FUNCTIONS, everBound, regOp, removal, dataVars, luhnVars,
                   callVars>>

\* verification_func(matched_text) is entered ...
BeginCall(t) ==
    /\ scan[t].pc = "holding"
    /\ scan[t].fn # None
    /\ scan' = [scan EXCEPT ![t].pc = "calling"]
    /\ UNCHANGED <<VERIFICATION_FUNCTIONS, everBound, regOp, removal, dataVars, luhnVars,
                   callVars>>

\* ... and runs to its end on the function object the thread holds.
EndCall(t) ==
    /\ scan[t].pc = "calling"
    /\ scan' = [scan EXCEPT ![t].pc = "done",
                            ![t].result = Apply(scan[t].fn, scan[t].value)]
    /\ UNCHANGED <<VERIFICATION_FUNCTIONS, everBound, regOp, removal, dataVars, luhnVars,
                   callVars>>

\* unregister_verification_function(name) in a thread of its own, one step
\* for each access to the dict.  Line 1922: `if name in VERIFICATION_FUNCTIONS`.
TestMembership(t, name) ==
    /\ removal[t].pc = "idle"
    /\ removal' = [removal EXCEPT ![t].pc = "tested", ![t].name = name,
                                  ![t].found = name \in DOMAIN VERIFICATION_FUNCTIONS]
    /\ UNCHANGED <<VERIFICATION_FUNCTIONS, everBound, regOp, scan, dataVars, luhnVars,
                   callVars>>

\* Lines 1923-1925: `del VERIFICATION_FUNCTIONS[name]`, which raises KeyError
\* when the key is no longer there, then `return True`.
DeleteEntry(t) ==
    /\ removal[t].pc = "tested"
    /\ removal[t].found
    /\ IF removal[t].name \in DOMAIN VERIFICATION_FUNCTIONS
       THEN /\ VERIFICATION_FUNCTIONS' = DelItem(VERIFICATION_FUNCTIONS, removal[t].name)
            /\ removal' = [removal EXCEPT ![t].pc = "done",
                                          ![t].outcome = Return(TRUE)]
       ELSE /\ UNCHANGED VERIFICATION_FUNCTIONS
            /\ removal' = [removal EXCEPT ![t].pc = "done",
                                          ![t].outcome = Raise("KeyError")]
    /\ UNCHANGED <<everBound, regOp, scan, dataVars, luhnVars, callVars>>

\* Line 1926: `return False`.
ReturnNotFound(t) ==
    /\ removal[t].pc = "tested"
    /\ ~removal[t].found
    /\ removal' = [removal EXCEPT ![t].pc = "done", ![t].outcome = Return(FALSE)]
    /\ UNCHANGED <<VERIFICATION_FUNCTIONS, everBound, regOp, scan, dataVars, luhnVars,
                   callVars>>

InitRegistry ==
    /\ VERIFICATION_FUNCTIONS = BuiltinRegistry
    /\ everBound = [n \in BuiltinNames |-> {n}]
    /\ regOp = [seq |-> 0, kind |-> "none", name |-> None, func |-> None,
                before |-> BuiltinRegistry, exc |-> "none", ret |-> FALSE]
    /\ scan = [t \in Scanners |->
                 [pc |-> "idle", name |-> None, value |-> <<>>, fn |-> None,
                  result |-> NotCalled]]
    /\ removal = [t \in Removers |->
                    [pc |-> "idle", name |-> None, found |-> FALSE,
                     outcome |-> NotCalled]]

Register   == \E name \in RegNames, func \in RegFuncs :
                  register_verification_function(name, func)
Unregister == \E name \in ScanNames : unregister_verification_function(name)
DoLookup   == \E t \in Scanners, name \in ScanNames, v \in ScanValues :
                  Lookup(t, name, v)
DoSkipCall == \E t \in Scanners : SkipCall(t)
DoBeginCall == \E t \in Scanners : BeginCall(t)
DoEndCall  == \E t \in Scanners : EndCall(t)

DoTestMembership == \E t \in Removers, name \in ScanNames : TestMembership(t, name)
DoDeleteEntry    == \E t \in Removers : DeleteEntry(t)
DoReturnNotFound == \E t \in Removers : ReturnNotFound(t)

\* Unregistering threads that are not serialised, next to registrations.
NextRemoval ==
    \/ Register
    \/ DoTestMembership
    \/ DoDeleteEntry
    \/ DoReturnNotFound

NextRegistry ==
    \/ Register
    \/ Unregister
    \/ DoLookup
    \/ DoSkipCall
    \/ DoBeginCall
    \/ DoEndCall

-----------------------------------------------------------------------------
(* korean_zipcode_valid and us_zipcode_valid, verification.py:291-389 *)

\* all(int(ds[i]) == int(ds[i-1]) + step for i in range(1, len(ds))), from
\* index i on (0-based): the generator is consumed left to right, all()
\* stops at the first false item, and int() raises on a digit it cannot
\* convert (the left operand is converted first).
RECURSIVE all_sequential(_, _, _)
all_sequential(ds, step, i) ==
    IF i >= Len(ds) THEN Return(TRUE)
    ELSE IF ~isdecimal(ds[i + 1]) \/ ~isdecimal(ds[i]) THEN Raise("ValueError")
    ELSE IF int(ds[i + 1]) # int(ds[i]) + step THEN Return(FALSE)
    ELSE all_sequential(ds, step, i + 1)

\* int(s) of a string of decimal digits.
RECURSIVE int_str(_)
int_str(s) ==
    IF Len(s) = 0 THEN 0
    ELSE 10 * int_str(SubSeq(s, 1, Len(s) - 1)) + int(s[Len(s)])

\* int(s) raises ValueError on the empty string and on a non-decimal digit.
int_ok(s) == Len(s) > 0 /\ \A i \in 1..Len(s) : isdecimal(s[i])

\* len(set(s)) == 1
all_same(s) == Len(s) > 0 /\ \A i \in 1..Len(s) : s[i] = s[1]

\* The heuristic rules without the rejection of round numbers.
zip_heuristic_keeps_round(zip) ==
    LET up   == all_sequential(zip, 1, 1)
        down == all_sequential(zip, -1, 1)
    IN  IF up.exc # "none" THEN up
        ELSE IF down.exc # "none" THEN down
        ELSE IF up.ret \/ down.ret THEN Return(FALSE)
        ELSE IF all_same(zip) THEN Return(FALSE)
        ELSE Return(int_ok(zip))

\* Lines 309-333 and 366-389: the heuristic rules on the 5 digits zip.
zip_heuristic(zip) ==
    LET up   == all_sequential(zip, 1, 1)
        down == all_sequential(zip, -1, 1)
    IN  IF up.exc # "none" THEN up
        ELSE IF down.exc # "none" THEN down
        ELSE IF up.ret \/ down.ret THEN Return(FALSE)
        ELSE IF all_same(zip) THEN Return(FALSE)
        ELSE IF ~int_ok(zip) THEN Return(FALSE)
        ELSE IF int_str(zip) % 10000 = 0 THEN Return(FALSE)
        ELSE Return(TRUE)

\* value.replace("-", "")
remove_hyphens(v) == SelectSeq(v, LAMBDA c : c # "-")

\* Lines 302-333 of korean_zipcode_valid.
korean_zipcode_heuristic(v) ==
    LET digits_only == SelectSeq(v, isdigit)
    IN  IF Len(digits_only) # 5 THEN Return(FALSE)
        ELSE zip_heuristic(digits_only)

\* A verifier that asks the heuristics about a code the set does not hold.
korean_zipcode_set_or_heuristic(v, valid_zips) ==
    IF v \in valid_zips \/ remove_hyphens(v) \in valid_zips
    THEN Return(TRUE)
    ELSE korean_zipcode_heuristic(v)

\* korean_zipcode_valid, with valid_zips the set _load_data_file returned.
korean_zipcode_valid(v, valid_zips) ==
    IF valid_zips # {}
    THEN Return(v \in valid_zips \/ remove_hyphens(v) \in valid_zips)
    ELSE korean_zipcode_heuristic(v)

\* Lines 358-389 of us_zipcode_valid.
us_zipcode_heuristic(v) ==
    LET digits_only == SelectSeq(v, isdigit)
    IN  IF Len(digits_only) \notin {5, 9} THEN Return(FALSE)
        ELSE zip_heuristic(SubSeq(digits_only, 1, 5))

\* us_zipcode_valid, with valid_zips the set _load_data_file returned.
us_zipcode_valid(v, valid_zips) ==
    LET digits_only == SelectSeq(v, isdigit)
    IN  IF valid_zips # {} /\ Len(digits_only) = 5
        THEN Return(digits_only \in valid_zips)
        ELSE IF valid_zips # {} /\ Len(digits_only) = 9
        THEN Return(SubSeq(digits_only, 1, 5) \in valid_zips)
        ELSE us_zipcode_heuristic(v)

-----------------------------------------------------------------------------
(* The reference data cache, verification.py:20-53 *)

Filenames == {"kr_zipcodes.csv", "us_zipcodes.csv"}

\* The lines f.readlines() yields for the texts a data file may hold.
Header   == <<"z", "i", "p", "\n">>
TextOld  == <<Header, <<"0", "6", "2", "3", "6", "\n">>, <<"\n">>,
              <<" ", "9", "0", "2", "1", "0", " ", "\n">>>>
TextNew  == <<Header, <<"1", "2", "3", "4", "5", "\n">>>>

\* What may be on disk under a data file's path: nothing, a file that
\* open() or readlines() fails on, or a text.
Absent     == [kind |-> "absent", lines |-> <<>>]
Unreadable == [kind |-> "unreadable", lines |-> <<>>]
Text(ls)   == [kind |-> "text", lines |-> ls]
FileStates == {Absent, Unreadable, Text(TextOld), Text(TextNew)}

Whitespace == {" ", "\n"}

\* str.strip()
RECURSIVE strip(_)
strip(s) ==
    IF Len(s) = 0 THEN s
    ELSE IF s[1] \in Whitespace THEN strip(Tail(s))
    ELSE IF s[Len(s)] \in Whitespace THEN strip(SubSeq(s, 1, Len(s) - 1))
    ELSE s

\* Lines 42-47: the stripped, non-blank lines after the header.
parse_lines(lines) ==
    {strip(lines[i]) : i \in {j \in 2..Len(lines) : strip(lines[j]) # <<>>}}

\* data_path.exists(), line 38, as the answer stat() gives for the path.
exists(st) == st.kind # "absent"

\* A read whose except clause misses the error: it leaves _load_data_file.
read_file_propagates(st) ==
    IF st.kind = "text"
    THEN [exc |-> "none", values |-> parse_lines(st.lines), how |-> "read"]
    ELSE [exc |-> "OSError", values |-> {}, how |-> "failed"]

\* Lines 39-50 on the file as it is when it is opened: the values of the
\* text; when open() or readlines() raises (the file is unreadable, or has
\* been removed since exists()) `except Exception` catches it, nothing has
\* been added to values yet and nothing is raised to the caller.
read_file(st) ==
    IF st.kind = "text"
    THEN [exc |-> "none", values |-> parse_lines(st.lines), how |-> "read"]
    ELSE [exc |-> "none", values |-> {}, how |-> "failed"]

Threads == {"t1", "t2"}

\* The verifiers a thread calls and their arguments.
Verifiers == {"korean_zipcode_valid", "us_zipcode_valid"}
ZipValues ==
    {<<"0", "6", "2", "3", "6">>,
     <<"1", "2", "3", "4", "5">>,
     <<"9", "0", "2", "1", "0", "-", "1", "2", "3", "4">>,
     <<"1", "2", "3", "4", "sup2">>}

\* The data file a verifier loads (lines 298 and 346).
data_file(fn) ==
    CASE fn = "korean_zipcode_valid" -> "kr_zipcodes.csv"
      [] fn = "us_zipcode_valid"     -> "us_zipcodes.csv"

\* The rest of the verifier once _load_data_file has returned valid_zips.
verify(fn, v, valid_zips) ==
    CASE fn = "korean_zipcode_valid" -> korean_zipcode_valid(v, valid_zips)
      [] fn = "us_zipcode_valid"     -> us_zipcode_valid(v, valid_zips)

\* A thread calls verifier fn on arg, MaxCalls times in a row.  Its position
\* is the next access to shared state: the cache ("check", "store") or the
\* file ("exists", "open"); what a verifier computes between two accesses
\* is local and is part of the step that precedes it.
Calling(fn, v) == [pc |-> "check", fn |-> fn, arg |-> v, values |-> {},
                   how |-> "none", results |-> <<>>]

\* _load_data_file has returned valid_zips: the verifier decides and returns,
\* and the thread goes on to its next call.
Returned(th, valid_zips, how) ==
    LET rs == Append(th.results,
                     [how |-> how, out |-> verify(th.fn, th.arg, valid_zips)])
    IN  [th EXCEPT !.pc = IF Len(rs) >= MaxCalls THEN "done" ELSE "check",
                   !.results = rs, !.values = {}, !.how = "none"]

\* _load_data_file lines 32-33: a cached entry is returned at once.
LoadCheck(t) ==
    LET f == data_file(loader[t].fn)
    IN  /\ loader[t].pc = "check"
        /\ IF f \in DOMAIN DATA_CACHE
           THEN loader' = [loader EXCEPT
                    ![t] = Returned(loader[t], DATA_CACHE[f], "cached")]
           ELSE loader' = [loader EXCEPT ![t].pc = "exists"]
        /\ UNCHANGED <<DATA_CACHE, file, fileChanges, reads, writes, regVars, luhnVars, callVars>>

\* Lines 35-38: values = set(); if data_path.exists():
LoadExists(t) ==
    LET f == data_file(loader[t].fn)
    IN  /\ loader[t].pc = "exists"
        /\ loader' = [loader EXCEPT
               ![t].pc = IF exists(file[f]) THEN "open" ELSE "store",
               ![t].values = {},
               ![t].how = IF exists(file[f]) THEN "none" ELSE "absent"]
        /\ UNCHANGED <<DATA_CACHE, file, fileChanges, reads, writes, regVars, luhnVars, callVars>>

\* Lines 39-50: the file is opened and read, a failure is logged.  An
\* exception that left _load_data_file would end the verifier call with it.
LoadRead(t) ==
    LET f == data_file(loader[t].fn)
        r == read_file(file[f])
    IN  /\ loader[t].pc = "open"
        /\ IF r.exc = "none"
           THEN loader' = [loader EXCEPT ![t].pc = "store",
                                         ![t].values = r.values,
                                         ![t].how = r.how]
           ELSE loader' = [loader EXCEPT
                    ![t].pc = "done",
                    ![t].results = Append(@, [how |-> r.how, out |-> Raise(r.exc)])]
        /\ reads' = [reads EXCEPT ![f] = @ + 1]
        /\ UNCHANGED <<DATA_CACHE, file, fileChanges, writes, regVars, luhnVars, callVars>>

\* Lines 52-53: _DATA_CACHE[filename] = values; return values
LoadStore(t) ==
    LET f == data_file(loader[t].fn)
    IN  /\ loader[t].pc = "store"
        /\ DATA_CACHE' = SetItem(DATA_CACHE, f, loader[t].values)
        /\ writes' = [writes EXCEPT ![f] = @ + 1]
        /\ loader' = [loader EXCEPT
               ![t] = Returned(loader[t], loader[t].values, loader[t].how)]
        /\ UNCHANGED <<file, fileChanges, reads, regVars, luhnVars, callVars>>

\* The environment creates, changes or removes a data file.
ChangeFile(f, st) ==
    /\ fileChanges < MaxFileChanges
    /\ st # file[f]
    /\ file' = [file EXCEPT ![f] = st]
    /\ fileChanges' = fileChanges + 1
    /\ UNCHANGED <<DATA_CACHE, reads, writes, loader, regVars, luhnVars, callVars>>

InitData ==
    /\ DATA_CACHE = [f \in {} |-> {}]
    /\ file \in [Filenames -> FileStates]
    /\ fileChanges = 0
    /\ reads = [f \in Filenames |-> 0]
    /\ writes = [f \in Filenames |-> 0]
    /\ loader \in [Threads -> {Calling(fn, v) : fn \in Verifiers, v \in ZipValues}]

DoLoadCheck  == \E t \in Threads : LoadCheck(t)
DoLoadExists == \E t \in Threads : LoadExists(t)
DoLoadRead   == \E t \in Threads : LoadRead(t)
DoLoadStore  == \E t \in Threads : LoadStore(t)
DoChangeFile == \E f \in Filenames, st \in FileStates : ChangeFile(f, st)

NextData ==
    \/ DoLoadCheck
    \/ DoLoadExists
    \/ DoLoadRead
    \/ DoLoadStore
    \/ DoChangeFile

-----------------------------------------------------------------------------
(* Strings and numbers as the built-in verifiers use them *)

\* "".join(c for c in value if c.isdigit())
digits_of(v) == SelectSeq(v, isdigit)

\* s[a:b] with 0 <= a <= b; Python cuts the slice at the end of s.
Slice(s, a, b) ==
    SubSeq(s, a + 1, IF b < Len(s) THEN b ELSE Len(s))

\* s.startswith(prefix)
startswith(s, prefix) ==
    Len(s) >= Len(prefix) /\ SubSeq(s, 1, Len(prefix)) = prefix

\* value.replace(" ", "")
remove_spaces(v) == SelectSeq(v, LAMBDA c : c # " ")

\* The decimal digits of an integer, most significant first, without
\* leading zeros: what int(s) is compared by.  Python integers are
\* unbounded; a number too large for a machine word is kept as its digits.
RECURSIVE strip_zeros(_)
strip_zeros(ds) ==
    IF Len(ds) > 1 /\ ds[1] = 0 THEN strip_zeros(Tail(ds)) ELSE ds

\* int(s) for a string s of decimal digits, as its digits.
int_digits(s) == strip_zeros([i \in 1..Len(s) |-> int(s[i])])

\* a < b on two numbers given by their digits.
RECURSIVE digits_less(_, _)
digits_less(a, b) ==
    IF Len(a) # Len(b) THEN Len(a) < Len(b)
    ELSE IF a = <<>> THEN FALSE
    ELSE IF a[1] # b[1] THEN a[1] < b[1]
    ELSE digits_less(Tail(a), Tail(b))

\* lo <= int(s) <= hi, lo and hi given by their digits.
int_between(lo, s, hi) ==
    /\ ~digits_less(int_digits(s), lo)
    /\ ~digits_less(hi, int_digits(s))

\* int(s) % m for a string s of decimal digits.
RECURSIVE int_mod(_, _)
int_mod(s, m) ==
    IF Len(s) = 0 THEN 0
    ELSE (10 * int_mod(SubSeq(s, 1, Len(s) - 1), m) + int(s[Len(s)])) % m

DigitChars == <<"0", "1", "2", "3", "4", "5", "6", "7", "8", "9">>

\* str(n) for an integer n >= 0.
RECURSIVE str(_)
str(n) ==
    IF n < 10 THEN <<DigitChars[n + 1]>>
    ELSE str(n \div 10) \o <<DigitChars[(n % 10) + 1]>>

ascii_uppercase ==
    <<"A", "B", "C", "D", "E", "F", "G", "H", "I", "J", "K", "L", "M",
      "N", "O", "P", "Q", "R", "S", "T", "U", "V", "W", "X", "Y", "Z">>
ascii_lowercase ==
    <<"a", "b", "c", "d", "e", "f", "g", "h", "i", "j", "k", "l", "m",
      "n", "o", "p", "q", "r", "s", "t", "u", "v", "w", "x", "y", "z">>

Range(s) == {s[i] : i \in 1..Len(s)}
IndexIn(s, c) == CHOOSE i \in 1..Len(s) : s[i] = c

\* str.isalpha() of one character
isalpha(c) ==
    c \in Range(ascii_uppercase) \cup Range(ascii_lowercase) \cup {"Eacute", "eacute"}

\* ord(c) of a letter
ord(c) ==
    CASE c \in Range(ascii_uppercase) -> 64 + IndexIn(ascii_uppercase, c)
      [] c \in Range(ascii_lowercase) -> 96 + IndexIn(ascii_lowercase, c)
      [] c = "Eacute" -> 201
      [] c = "eacute" -> 233

\* str.upper(), character by character
upper(v) ==
    [i \in 1..Len(v) |->
        IF v[i] \in Range(ascii_lowercase)
        THEN ascii_uppercase[IndexIn(ascii_lowercase, v[i])]
        ELSE IF v[i] = "eacute" THEN "Eacute" ELSE v[i]]

-----------------------------------------------------------------------------
(* iban_mod97, verification.py:56-95 *)

\* Lines 79-88, the loop over rearranged: the numeric string so far, or the
\* `return False` on a character that is neither a digit nor a letter.
RECURSIVE iban_numeric(_, _)
iban_numeric(rearranged, numeric_string) ==
    IF rearranged = <<>> THEN [ok |-> TRUE, str |-> numeric_string]
    ELSE LET char == Head(rearranged)
         IN  IF isdigit(char)
             THEN iban_numeric(Tail(rearranged), Append(numeric_string, char))
             ELSE IF isalpha(char)
             THEN iban_numeric(Tail(rearranged),
                               numeric_string \o str(ord(char) - ord("A") + 10))
             ELSE [ok |-> FALSE, str |-> numeric_string]

iban_mod97(v) ==
    LET iban       == upper(remove_spaces(v))
        rearranged == Slice(iban, 4, Len(iban)) \o Slice(iban, 0, 4)
        numeric    == iban_numeric(rearranged, <<>>)
    IN  IF ~numeric.ok THEN Return(FALSE)
        ELSE IF ~int_ok(numeric.str) THEN Return(FALSE)
        ELSE Return(int_mod(numeric.str, 97) = 1)

-----------------------------------------------------------------------------
(* credit_card_bin_valid, verification.py:1095-1184 *)

\* lo <= int(s) <= hi for a short prefix s
prefix_in(s, lo, hi) == lo <= int_str(s) /\ int_str(s) <= hi

\* The BIN tests in the order the code makes them.  int() of a prefix that
\* holds a digit it cannot convert raises ValueError, which nothing
\* catches; a test is made only when no earlier one has set valid_bin.  The
\* length guards (len >= 2, 3, 4, 6) hold for every length that passes line
\* 1119.
credit_card_bin_valid(v) ==
    LET digits  == digits_of(v)
        prefix2 == Slice(digits, 0, 2)
        prefix3 == Slice(digits, 0, 3)
        prefix4 == Slice(digits, 0, 4)
        prefix6 == Slice(digits, 0, 6)
    IN  IF Len(digits) < 13 \/ Len(digits) > 19 THEN Return(FALSE)
        \* Visa
        ELSE IF digits[1] = "4" THEN luhn(digits)
        \* Mastercard
        ELSE IF ~int_ok(prefix2) THEN Raise("ValueError")
        ELSE IF prefix_in(prefix2, 51, 55) THEN luhn(digits)
        ELSE IF ~int_ok(prefix4) THEN Raise("ValueError")
        ELSE IF prefix_in(prefix4, 2221, 2720) THEN luhn(digits)
        \* American Express
        ELSE IF int_str(prefix2) \in {34, 37} THEN luhn(digits)
        \* Discover
        ELSE IF startswith(digits, <<"6", "0", "1", "1">>) THEN luhn(digits)
        ELSE IF startswith(digits, <<"6", "5">>) THEN luhn(digits)
        ELSE IF prefix_in(prefix3, 644, 649) THEN luhn(digits)
        ELSE IF ~int_ok(prefix6) THEN Raise("ValueError")
        ELSE IF prefix_in(prefix6, 622126, 622925) THEN luhn(digits)
        \* JCB
        ELSE IF prefix_in(prefix4, 3528, 3589) THEN luhn(digits)
        \* UnionPay
        ELSE IF startswith(digits, <<"6", "2">>) THEN luhn(digits)
        \* Diners Club
        ELSE IF int_str(prefix2) \in {36, 38} THEN luhn(digits)
        ELSE IF prefix_in(prefix3, 300, 305) THEN luhn(digits)
        ELSE Return(FALSE)

-----------------------------------------------------------------------------
(* The composite-ID and checksum verifiers, verification.py:802-1834 *)

\* _is_valid_date, lines 1187-1216
days_in_month == <<31, 29, 31, 30, 31, 30, 31, 31, 30, 31, 30, 31>>

is_valid_date(year, month, day) ==
    IF month < 1 \/ month > 12 THEN FALSE
    ELSE IF day < 1 \/ day > 31 THEN FALSE
    ELSE IF day > days_in_month[month] THEN FALSE
    ELSE IF month = 2 /\ day = 29
    THEN (year % 4 = 0 /\ year % 100 # 0) \/ (year % 400 = 0)
    ELSE TRUE

\* sum(int(digits[i]) * weights[i] for i in range(n))
RECURSIVE weighted_sum(_, _, _)
weighted_sum(digits, weights, n) ==
    IF n = 0 THEN 0
    ELSE weighted_sum(digits, weights, n - 1) + int(digits[n]) * weights[n]

\* Every character of digits[a-1:b] is one int() converts.
decimal_in(digits, a, b) == \A i \in a..b : isdecimal(digits[i])

\* A kr_rrn_valid that takes every birth year for 19YY.
kr_rrn_valid_1900s(v) ==
    LET digits == digits_of(v)
        yy     == int_str(Slice(digits, 0, 2))
        month  == int_str(Slice(digits, 2, 4))
        day    == int_str(Slice(digits, 4, 6))
        gender_century == int(digits[7])
        year   == 1900 + yy
        weights == <<2, 3, 4, 5, 6, 7, 8, 9, 2, 3, 4, 5>>
        total  == weighted_sum(digits, weights, 12)
        check_digit == (11 - (total % 11)) % 10
    IN  IF Len(digits) # 13 THEN Return(FALSE)
        ELSE IF ~decimal_in(digits, 1, 7) THEN Return(FALSE)
        ELSE IF gender_century < 1 \/ gender_century > 4 THEN Return(FALSE)
        ELSE IF ~is_valid_date(year, month, day) THEN Return(FALSE)
        ELSE IF all_same(digits) THEN Return(FALSE)
        ELSE IF ~decimal_in(digits, 8, 13) THEN Raise("ValueError")
        ELSE Return(int(digits[13]) = check_digit)

\* kr_rrn_valid, lines 1219-1279
kr_rrn_valid(v) ==
    LET digits == digits_of(v)
        yy     == int_str(Slice(digits, 0, 2))
        month  == int_str(Slice(digits, 2, 4))
        day    == int_str(Slice(digits, 4, 6))
        gender_century == int(digits[7])
        year   == IF gender_century \in {1, 2} THEN 1900 + yy ELSE 2000 + yy
        weights == <<2, 3, 4, 5, 6, 7, 8, 9, 2, 3, 4, 5>>
        total  == weighted_sum(digits, weights, 12)
        check_digit == (11 - (total % 11)) % 10
    IN  IF Len(digits) # 13 THEN Return(FALSE)
        ELSE IF ~decimal_in(digits, 1, 7) THEN Return(FALSE)
        ELSE IF gender_century < 1 \/ gender_century > 4 THEN Return(FALSE)
        ELSE IF ~is_valid_date(year, month, day) THEN Return(FALSE)
        ELSE IF all_same(digits) THEN Return(FALSE)
        ELSE IF ~decimal_in(digits, 8, 13) THEN Raise("ValueError")
        ELSE Return(int(digits[13]) = check_digit)

\* kr_alien_registration_valid, lines 1282-1335
kr_alien_registration_valid(v) ==
    LET digits == digits_of(v)
        yy     == int_str(Slice(digits, 0, 2))
        month  == int_str(Slice(digits, 2, 4))
        day    == int_str(Slice(digits, 4, 6))
        gender_century == int(digits[7])
        year   == IF gender_century \in {5, 6} THEN 1900 + yy ELSE 2000 + yy
    IN  IF Len(digits) # 13 THEN Return(FALSE)
        ELSE IF ~decimal_in(digits, 1, 7) THEN Return(FALSE)
        ELSE IF gender_century < 5 \/ gender_century > 8 THEN Return(FALSE)
        ELSE IF ~is_valid_date(year, month, day) THEN Return(FALSE)
        ELSE IF all_same(digits) THEN Return(FALSE)
        ELSE Return(TRUE)

\* poland_pesel_valid, lines 1544-1615
poland_pesel_valid(v) ==
    LET digits == digits_of(v)
        yy     == int_str(Slice(digits, 0, 2))
        mm     == int_str(Slice(digits, 2, 4))
        dd     == int_str(Slice(digits, 4, 6))
        year   == CASE mm <= 12 -> 1900 + yy
                    [] mm >= 21 /\ mm <= 32 -> 2000 + yy
                    [] mm >= 41 /\ mm <= 52 -> 2100 + yy
                    [] mm >= 61 /\ mm <= 72 -> 2200 + yy
                    [] OTHER -> 1800 + yy
        month  == CASE mm <= 12 -> mm
                    [] mm >= 21 /\ mm <= 32 -> mm - 20
                    [] mm >= 41 /\ mm <= 52 -> mm - 40
                    [] mm >= 61 /\ mm <= 72 -> mm - 60
                    [] OTHER -> mm - 80
        weights == <<1, 3, 7, 9, 1, 3, 7, 9, 1, 3>>
        total  == weighted_sum(digits, weights, 10)
        check_digit == (10 - (total % 10)) % 10
    IN  IF Len(digits) # 11 THEN Return(FALSE)
        ELSE IF all_same(digits) THEN Return(FALSE)
        ELSE IF ~decimal_in(digits, 1, 6) THEN Return(FALSE)
        ELSE IF mm \notin (1..12) \cup (21..32) \cup (41..52) \cup (61..72)
                          \cup (81..92) THEN Return(FALSE)
        ELSE IF ~is_valid_date(year, month, dd) THEN Return(FALSE)
        ELSE IF ~decimal_in(digits, 7, 11) THEN Raise("ValueError")
        ELSE Return(int(digits[11]) = check_digit)

\* A personnummer check that looks luhn up in the registry for its last
\* step; calling None raises TypeError.
sweden_personnummer_registered(v) ==
    LET all_digits == digits_of(v)
        digits == IF Len(all_digits) = 12 THEN Slice(all_digits, 2, 12)
                  ELSE all_digits
        mm     == int_str(Slice(digits, 2, 4))
        dd     == int_str(Slice(digits, 4, 6))
        fn     == get_verification_function(VERIFICATION_FUNCTIONS, "luhn")
    IN  IF Len(all_digits) \notin {10, 12} THEN Return(FALSE)
        ELSE IF ~decimal_in(digits, 1, 6) THEN Return(FALSE)
        ELSE IF mm < 1 \/ mm > 12 THEN Return(FALSE)
        ELSE IF dd < 1 \/ dd > 31 THEN Return(FALSE)
        ELSE IF fn = None THEN Raise("TypeError")
        ELSE Apply(fn, digits)

\* sweden_personnummer_valid, lines 1618-1657
sweden_personnummer_valid(v) ==
    LET all_digits == digits_of(v)
        digits == IF Len(all_digits) = 12 THEN Slice(all_digits, 2, 12)
                  ELSE all_digits
        mm     == int_str(Slice(digits, 2, 4))
        dd     == int_str(Slice(digits, 4, 6))
    IN  IF Len(all_digits) \notin {10, 12} THEN Return(FALSE)
        ELSE IF ~decimal_in(digits, 1, 6) THEN Return(FALSE)
        ELSE IF mm < 1 \/ mm > 12 THEN Return(FALSE)
        ELSE IF dd < 1 \/ dd > 31 THEN Return(FALSE)
        ELSE luhn(digits)

\* belgium_rrn_valid, lines 1717-1768
belgium_rrn_valid(v) ==
    LET digits == digits_of(v)
        mm     == int_str(Slice(digits, 2, 4))
        dd     == int_str(Slice(digits, 4, 6))
        base_9 == Slice(digits, 0, 9)
        check_digits == int_str(Slice(digits, 9, 11))
        expected_check_1900 == 97 - int_mod(base_9, 97)
        expected_check_2000 == 97 - int_mod(<<"2">> \o base_9, 97)
    IN  IF Len(digits) # 11 THEN Return(FALSE)
        ELSE IF ~decimal_in(digits, 1, 6) THEN Return(FALSE)
        ELSE IF mm < 1 \/ mm > 12 THEN Return(FALSE)
        ELSE IF dd < 1 \/ dd > 31 THEN Return(FALSE)
        ELSE IF ~decimal_in(digits, 7, 11) THEN Raise("ValueError")
        ELSE IF check_digits = expected_check_1900 THEN Return(TRUE)
        ELSE Return(check_digits = expected_check_2000)

\* int(s) of a string that may start with a sign: it raises ValueError
\* unless decimal digits, at least one, follow the optional sign.
unsigned(s) == IF s # <<>> /\ s[1] \in {"+", "-"} THEN Tail(s) ELSE s
signed_int_ok(s) == int_ok(unsigned(s))
signed_int(s) ==
    IF s[1] = "-" THEN 0 - int_str(unsigned(s)) ELSE int_str(unsigned(s))

check_sequence ==
    <<"0", "1", "2", "3", "4", "5", "6", "7", "8", "9", "A", "B", "C", "D",
      "E", "F", "H", "J", "K", "L", "M", "N", "P", "R", "S", "T", "U", "V",
      "W", "X", "Y">>

\* finland_hetu_valid, lines 1771-1834
finland_hetu_valid(v) ==
    LET hetu == upper(remove_spaces(v))
        dd   == signed_int(Slice(hetu, 0, 2))
        mm   == signed_int(Slice(hetu, 2, 4))
        yy   == signed_int(Slice(hetu, 4, 6))
        century_sign == hetu[7]
        individual   == Slice(hetu, 7, 10)
        check_char   == hetu[11]
        year == CASE century_sign = "+" -> 1800 + yy
                  [] century_sign = "-" -> 1900 + yy
                  [] OTHER -> 2000 + yy
        number_str == Slice(hetu, 0, 6) \o individual
        expected_check == check_sequence[int_mod(unsigned(number_str), 31) + 1]
    IN  IF Len(hetu) # 11 THEN Return(FALSE)
        ELSE IF ~(/\ signed_int_ok(Slice(hetu, 0, 2))
                  /\ signed_int_ok(Slice(hetu, 2, 4))
                  /\ signed_int_ok(Slice(hetu, 4, 6))) THEN Return(FALSE)
        ELSE IF century_sign \notin {"+", "-", "A"} THEN Return(FALSE)
        ELSE IF \E i \in 1..3 : ~isdigit(individual[i]) THEN Return(FALSE)
        ELSE IF ~is_valid_date(year, mm, dd) THEN Return(FALSE)
        ELSE IF ~signed_int_ok(number_str) THEN Raise("ValueError")
        ELSE Return(check_char = expected_check)

\* kr_business_registration_valid, lines 916-957
kr_business_registration_valid(v) ==
    LET digits_only == digits_of(v)
        weights == <<1, 3, 7, 1, 3, 7, 1, 3, 5>>
        total == weighted_sum(digits_only, weights, 9)
                     + ((int(digits_only[9]) * 5) \div 10)
        check_digit == (10 - (total % 10)) % 10
    IN  IF Len(digits_only) # 10 THEN Return(FALSE)
        ELSE IF all_same(digits_only) THEN Return(FALSE)
        ELSE IF ~decimal_in(digits_only, 1, 10) THEN Raise("ValueError")
        ELSE Return(int(digits_only[10]) = check_digit)

\* product - 9 when product > 9, lines 1417-1420
RECURSIVE corporate_total(_, _, _)
corporate_total(digits, weights, n) ==
    IF n = 0 THEN 0
    ELSE LET product == int(digits[n]) * weights[n]
         IN  corporate_total(digits, weights, n - 1)
                 + (IF product > 9 THEN product - 9 ELSE product)

\* kr_corporate_registration_valid, lines 1385-1424
kr_corporate_registration_valid(v) ==
    LET digits  == digits_of(v)
        weights == <<1, 2, 1, 2, 1, 2, 1, 2, 1, 2, 1, 2>>
        total   == corporate_total(digits, weights, 12)
        check_digit == (10 - (total % 10)) % 10
    IN  IF Len(digits) # 13 THEN Return(FALSE)
        ELSE IF all_same(digits) THEN Return(FALSE)
        ELSE IF ~decimal_in(digits, 1, 13) THEN Raise("ValueError")
        ELSE Return(int(digits[13]) = check_digit)

\* jp_my_number_valid, lines 1338-1382
jp_my_number_valid(v) ==
    LET digits  == digits_of(v)
        weights == <<6, 5, 4, 3, 2, 7, 6, 5, 4, 3, 2>>
        total   == weighted_sum(digits, weights, 11)
        remainder == total % 11
        expected_check == IF remainder <= 1 THEN 0 ELSE 11 - remainder
    IN  IF Len(digits) # 12 THEN Return(FALSE)
        ELSE IF all_same(digits) THEN Return(FALSE)
        ELSE IF digits \in {<<"1", "2", "3", "4", "5", "6", "7", "8", "9", "0", "1", "2">>,
                            <<"0", "1", "2", "3", "4", "5", "6", "7", "8", "9", "0", "1">>}
        THEN Return(FALSE)
        ELSE IF ~decimal_in(digits, 1, 12) THEN Raise("ValueError")
        ELSE Return(int(digits[12]) = expected_check)

\* The Verhoeff multiplication and permutation tables, lines 834-857
verhoeff_d ==
    <<<<0, 1, 2, 3, 4, 5, 6, 7, 8, 9>>,
      <<1, 2, 3, 4, 0, 6, 7, 8, 9, 5>>,
      <<2, 3, 4, 0, 1, 7, 8, 9, 5, 6>>,
      <<3, 4, 0, 1, 2, 8, 9, 5, 6, 7>>,
      <<4, 0, 1, 2, 3, 9, 5, 6, 7, 8>>,
      <<5, 9, 8, 7, 6, 0, 4, 3, 2, 1>>,
      <<6, 5, 9, 8, 7, 1, 0, 4, 3, 2>>,
      <<7, 6, 5, 9, 8, 2, 1, 0, 4, 3>>,
      <<8, 7, 6, 5, 9, 3, 2, 1, 0, 4>>,
      <<9, 8, 7, 6, 5, 4, 3, 2, 1, 0>>>>
verhoeff_p ==
    <<<<0, 1, 2, 3, 4, 5, 6, 7, 8, 9>>,
      <<1, 5, 7, 6, 2, 8, 3, 0, 9, 4>>,
      <<5, 8, 0, 3, 7, 9, 6, 1, 4, 2>>,
      <<8, 9, 1, 6, 0, 4, 3, 5, 2, 7>>,
      <<9, 4, 5, 3, 1, 2, 6, 8, 7, 0>>,
      <<4, 2, 8, 6, 5, 7, 3, 9, 0, 1>>,
      <<2, 7, 9, 3, 8, 0, 6, 4, 1, 5>>,
      <<7, 0, 4, 6, 9, 1, 3, 2, 5, 8>>>>

\* The loop of lines 860-863 over the first k characters of reversed_digits.
RECURSIVE verhoeff(_, _)
verhoeff(digits_only, k) ==
    IF k = 0 THEN 0
    ELSE LET i    == k - 1
             char == digits_only[Len(digits_only) - i]
             c    == verhoeff(digits_only, k - 1)
         IN  verhoeff_d[c + 1][verhoeff_p[(i % 8) + 1][int(char) + 1] + 1]

\* india_aadhaar_valid, lines 802-865
india_aadhaar_valid(v) ==
    LET digits_only == digits_of(v)
    IN  IF Len(digits_only) # 12 THEN Return(FALSE)
        ELSE IF digits_only[1] \in {"0", "1"} THEN Return(FALSE)
        ELSE IF all_same(digits_only) THEN Return(FALSE)
        ELSE IF ~decimal_in(digits_only, 1, 12) THEN Raise("ValueError")
        ELSE Return(verhoeff(digits_only, 12) = 0)

\* netherlands_bsn_valid, lines 1508-1541
netherlands_bsn_valid(v) ==
    LET all_digits == digits_of(v)
        digits  == IF Len(all_digits) = 8 THEN <<"0">> \o all_digits
                   ELSE all_digits
        weights == <<9, 8, 7, 6, 5, 4, 3, 2, -1>>
        total   == weighted_sum(digits, weights, 9)
    IN  IF Len(all_digits) \notin {8, 9} THEN Return(FALSE)
        ELSE IF all_same(digits) THEN Return(FALSE)
        ELSE IF ~decimal_in(digits, 1, 9) THEN Raise("ValueError")
        ELSE Return(total % 11 = 0)

-----------------------------------------------------------------------------
(* The timestamp verifiers, verification.py:220-563 *)

zeros(n) == [i \in 1..n |-> 0]
nines(n) == [i \in 1..n |-> 9]

\* 1000000000 <= int(s) <= 9999999999, caught ValueError counted as no
in_unix_seconds(s) ==
    int_ok(s) /\ int_between(<<1>> \o zeros(9), s, nines(10))

\* 1000000000000 <= int(s) <= 9999999999999
in_unix_millis(s) ==
    int_ok(s) /\ int_between(<<1>> \o zeros(12), s, nines(13))

\* The range of the accounts without a known prefix, used for all.
in_any_era(s) ==
    int_ok(s) /\ int_between(<<1>> \o zeros(9), s, nines(10))

\* 1600000000 <= int(s) <= 1800000000
in_current_era(s) ==
    int_ok(s) /\ int_between(<<1, 6>> \o zeros(8), s, <<1, 8>> \o zeros(8))

\* The test `1900 <= year <= 2099 and 1 <= month <= 12 and 1 <= day <= 31`
\* on digits_only[:4], [4:6], [6:8] inside its try block.
looks_like_date(digits_only) ==
    /\ int_ok(Slice(digits_only, 0, 4))
    /\ int_ok(Slice(digits_only, 4, 6))
    /\ int_ok(Slice(digits_only, 6, 8))
    /\ LET year  == int_str(Slice(digits_only, 0, 4))
           month == int_str(Slice(digits_only, 4, 6))
           day   == int_str(Slice(digits_only, 6, 8))
       IN  /\ 1900 <= year /\ year <= 2099
           /\ 1 <= month /\ month <= 12
           /\ 1 <= day /\ day <= 31

\* A datetime test that leaves the time of day untested.
looks_like_datetime_any_time(digits_only) ==
    /\ int_ok(Slice(digits_only, 0, 14))
    /\ looks_like_date(digits_only)

\* Lines 266-283: the six components are converted first, then tested.
looks_like_datetime(digits_only) ==
    /\ int_ok(Slice(digits_only, 0, 14))
    /\ looks_like_date(digits_only)
    /\ LET hour   == int_str(Slice(digits_only, 8, 10))
           minute == int_str(Slice(digits_only, 10, 12))
           second == int_str(Slice(digits_only, 12, 14))
       IN  hour <= 23 /\ minute <= 59 /\ second <= 59

\* not_timestamp, lines 220-288
not_timestamp(v) ==
    LET digits_only == digits_of(v)
        length == Len(digits_only)
    IN  IF digits_only = <<>> THEN Return(TRUE)
        ELSE IF length = 10 /\ in_unix_seconds(digits_only) THEN Return(FALSE)
        ELSE IF length = 13 /\ in_unix_millis(digits_only) THEN Return(FALSE)
        ELSE IF length = 14 /\ looks_like_datetime(digits_only) THEN Return(FALSE)
        ELSE Return(TRUE)

known_prefixes ==
    <<<<"1", "1", "0">>, <<"1", "2", "0">>, <<"1", "5", "0">>,
      <<"1", "9", "0">>, <<"8", "3", "0">>, <<"1", "0", "0", "2">>,
      <<"3", "0", "1">>, <<"3", "3", "3", "3">>, <<"1", "0", "0">>>>

\* Lines 473-480: sequential_count and max_sequential after the loop has
\* run over digits_only[1..k] (0-based indices 1..k-1).
RECURSIVE sequential_run(_, _)
sequential_run(digits_only, k) ==
    IF k <= 1 THEN [sequential_count |-> 0, max_sequential |-> 0]
    ELSE LET r == sequential_run(digits_only, k - 1)
         IN  IF int(digits_only[k]) = int(digits_only[k - 1]) + 1
             THEN [sequential_count |-> r.sequential_count + 1,
                   max_sequential |->
                       IF r.sequential_count + 1 > r.max_sequential
                       THEN r.sequential_count + 1 ELSE r.max_sequential]
             ELSE [sequential_count |-> 0, max_sequential |-> r.max_sequential]

\* An account check that has no allow-list of prefixes.
korean_bank_account_unlisted(v) ==
    LET digits_only == digits_of(v)
        length == Len(digits_only)
    IN  IF digits_only = <<>> THEN Return(FALSE)
        ELSE IF length = 10 /\ in_unix_seconds(digits_only) THEN Return(FALSE)
        ELSE IF length = 13 /\ in_unix_millis(digits_only) THEN Return(FALSE)
        ELSE IF length = 14 /\ looks_like_date(digits_only) THEN Return(FALSE)
        ELSE IF length < 10 THEN Return(TRUE)
        ELSE IF ~int_ok(digits_only) THEN Raise("ValueError")
        ELSE Return(~(sequential_run(digits_only, length).max_sequential >= 6))

\* korean_bank_account_valid, lines 392-486
korean_bank_account_valid(v) ==
    LET digits_only == digits_of(v)
        length == Len(digits_only)
        has_known_prefix ==
            \E k \in 1..Len(known_prefixes) :
                startswith(digits_only, known_prefixes[k])
    IN  IF digits_only = <<>> THEN Return(FALSE)
        ELSE IF has_known_prefix
        THEN Return(~(length = 10 /\ in_current_era(digits_only)))
        ELSE IF length = 10 /\ in_unix_seconds(digits_only) THEN Return(FALSE)
        ELSE IF length = 13 /\ in_unix_millis(digits_only) THEN Return(FALSE)
        ELSE IF length = 14 /\ looks_like_date(digits_only) THEN Return(FALSE)
        ELSE IF length < 10 THEN Return(TRUE)
        ELSE IF ~int_ok(digits_only) THEN Raise("ValueError")
        ELSE Return(~(sequential_run(digits_only, length).max_sequential >= 6))

\* A separator test that knows the hyphen only.
has_hyphen(v) == \E i \in 1..Len(v) : v[i] = "-"

\* any(c in value for c in ["-", " ", "/"])
has_separators(v) == \E i \in 1..Len(v) : v[i] \in {"-", " ", "/"}

\* generic_number_not_timestamp, lines 489-563
generic_number_not_timestamp(v) ==
    LET digits_only == digits_of(v)
        length == Len(digits_only)
    IN  IF digits_only = <<>> THEN Return(TRUE)
        ELSE IF has_separators(v)
        THEN Return(~(length >= 14 /\ looks_like_date(digits_only)))
        ELSE IF length = 10 /\ in_unix_seconds(digits_only) THEN Return(FALSE)
        ELSE IF length = 13 /\ in_unix_millis(digits_only) THEN Return(FALSE)
        ELSE IF length >= 14 /\ looks_like_date(digits_only) THEN Return(FALSE)
        ELSE Return(TRUE)

-----------------------------------------------------------------------------
(* not_repeating_pattern, verification.py:1041-1092 *)

\* pattern * k
repeat(pattern, k) ==
    [i \in 1..(Len(pattern) * k) |-> pattern[((i - 1) % Len(pattern)) + 1]]

\* Lines 1078-1081 (n = 2) and 1085-1088 (n = 3): the whole repetitions
\* of the first n characters, then the rest of the text against the start
\* of the pattern.
repeats(v, n) ==
    LET pattern == Slice(v, 0, n)
        whole == Len(v) \div n
        rest == Len(v) % n
    IN  /\ repeat(pattern, whole) = Slice(v, 0, Len(pattern) * whole)
        /\ \/ rest = 0
           \/ SubSeq(v, Len(v) - rest + 1, Len(v)) = Slice(pattern, 0, rest)

\* not_repeating_pattern, lines 1041-1092
not_repeating_pattern(v) ==
    LET digits_only == digits_of(v)
        is_ascending == all_sequential(digits_only, 1, 1)
        is_descending == all_sequential(digits_only, -1, 1)
    IN  IF Len(v) < 4 THEN Return(TRUE)
        ELSE IF all_same(v) THEN Return(FALSE)
        ELSE IF Len(digits_only) >= 4 /\ is_ascending.exc # "none"
        THEN is_ascending
        ELSE IF Len(digits_only) >= 4 /\ is_descending.exc # "none"
        THEN is_descending
        ELSE IF Len(digits_only) >= 4 /\ (is_ascending.ret \/ is_descending.ret)
        THEN Return(FALSE)
        ELSE IF repeats(v, 2) THEN Return(FALSE)
        ELSE IF Len(v) >= 6 /\ repeats(v, 3) THEN Return(FALSE)
        ELSE Return(TRUE)

-----------------------------------------------------------------------------
(* ipv4_public, verification.py:960-1038 *)

\* s.split(sep) for a separator of one character.
RECURSIVE split(_, _)
split(s, sep) ==
    IF \A i \in 1..Len(s) : s[i] # sep THEN <<s>>
    ELSE LET i == CHOOSE j \in 1..Len(s) :
                      s[j] = sep /\ \A k \in 1..(j - 1) : s[k] # sep
         IN  <<SubSeq(s, 1, i - 1)>> \o split(SubSeq(s, i + 1, Len(s)), sep)

\* int(s) of a str: white space around the number is dropped, a sign may
\* come first, the digits are decimal digits of any script and single
\* underscores may stand between two digits.
literal_sign(s) ==
    IF strip(s) # <<>> /\ strip(s)[1] = "-" THEN -1 ELSE 1
literal_body(s) ==
    IF strip(s) # <<>> /\ strip(s)[1] \in {"+", "-"}
    THEN Tail(strip(s)) ELSE strip(s)
int_literal_ok(s) ==
    LET b == literal_body(s)
    IN  /\ Len(b) > 0
        /\ isdecimal(b[1]) /\ isdecimal(b[Len(b)])
        /\ \A i \in 1..Len(b) : isdecimal(b[i]) \/ b[i] = "_"
        /\ \A i \in 1..(Len(b) - 1) : ~(b[i] = "_" /\ b[i + 1] = "_")
int_literal(s) ==
    literal_sign(s) * int_str(SelectSeq(literal_body(s), isdecimal))

\* ipv4_public, lines 960-1038; the ValueError of int() is caught.
ipv4_public(v) ==
    LET parts == split(v, ".")
        octets == [i \in 1..Len(parts) |-> int_literal(parts[i])]
        first == octets[1]
        second == octets[2]
        third == octets[3]
    IN  IF Len(parts) # 4 THEN Return(FALSE)
        ELSE IF \E i \in 1..4 : ~int_literal_ok(parts[i]) THEN Return(FALSE)
        ELSE IF \E i \in 1..4 : ~(0 <= octets[i] /\ octets[i] <= 255)
        THEN Return(FALSE)
        ELSE IF first = 0 THEN Return(FALSE)
        ELSE IF first = 10 THEN Return(FALSE)
        ELSE IF first = 127 THEN Return(FALSE)
        ELSE IF first = 169 /\ second = 254 THEN Return(FALSE)
        ELSE IF first = 172 /\ 16 <= second /\ second <= 31 THEN Return(FALSE)
        ELSE IF first = 192 /\ second = 0 /\ third = 2 THEN Return(FALSE)
        ELSE IF first = 192 /\ second = 168 THEN Return(FALSE)
        ELSE IF first = 198 /\ second = 51 /\ third = 100 THEN Return(FALSE)
        ELSE IF first = 203 /\ second = 0 /\ third = 113 THEN Return(FALSE)
        ELSE IF 224 <= first /\ first <= 239 THEN Return(FALSE)
        ELSE IF first >= 240 THEN Return(FALSE)
        ELSE Return(TRUE)

-----------------------------------------------------------------------------
(* dms_coordinate, verification.py:130-171 *)

\* The characters of a DMS coordinate are named "deg" (U+00B0 DEGREE SIGN),
\* "prime" (U+2032) and "dprime" (U+2033); "longs" is U+017F LATIN SMALL
\* LETTER LONG S, which [NSEW] matches when case is ignored.

\* The character at position i (from 1), "" past the end of the text.
at(v, i) == IF i \in 1..Len(v) THEN v[i] ELSE ""

\* The number of characters \d matches from position i on.
RECURSIVE digit_run(_, _)
digit_run(v, i) ==
    IF i \in 1..Len(v) /\ isdecimal(v[i]) THEN 1 + digit_run(v, i + 1) ELSE 0

\* The position \s* leaves off at when it starts at position i.
RECURSIVE skip_space(_, _)
skip_space(v, i) ==
    IF i \in 1..Len(v) /\ v[i] \in Whitespace THEN skip_space(v, i + 1) ELSE i

\* The letter of [NSEW] a character matches under re.IGNORECASE, after
\* .upper(); None when it matches none.
direction_of(c) ==
    CASE c \in {"N", "n"} -> "N"
      [] c \in {"S", "s", "longs"} -> "S"
      [] c \in {"E", "e"} -> "E"
      [] c \in {"W", "w"} -> "W"
      [] OTHER -> None

\* re.match(pattern, value, re.IGNORECASE), line 149: the pattern is matched
\* at the start of the text and need not reach its end.  Every quantified
\* part is followed by a character it cannot match, so the greedy match is
\* the only one.
dms_match(v) ==
    LET d  == digit_run(v, 1)
        i2 == skip_space(v, d + 2)
        m  == digit_run(v, i2)
        i3 == skip_space(v, i2 + m + 1)
        w  == digit_run(v, i3)
        dot == at(v, i3 + w) = "."
        f  == IF dot THEN digit_run(v, i3 + w + 1) ELSE 0
        i4 == IF dot THEN i3 + w + 1 + f ELSE i3 + w
        i5 == skip_space(v, i4 + 1)
    IN  [matched |->
             /\ d \in 1..3 /\ at(v, d + 1) = "deg"
             /\ m \in 1..2 /\ at(v, i2 + m) = "prime"
             /\ w \in 1..2 /\ (dot => f >= 1) /\ at(v, i4) = "dprime"
             /\ direction_of(at(v, i5)) # None,
         group1 |-> SubSeq(v, 1, d),
         group2 |-> SubSeq(v, i2, i2 + m - 1),
         whole |-> SubSeq(v, i3, i3 + w - 1),
         fraction |-> SubSeq(v, i3 + w + 1, i3 + w + f),
         group4 |-> at(v, i5)]

\* The digits after the point of 60 - 2^-48, half way between 60.0 and
\* the double below it.
half_ulp_below_60 ==
    <<9, 9, 9, 9, 9, 9, 9, 9, 9, 9, 9, 9, 9, 9, 6, 4,
      4, 7, 2, 8, 6, 3, 2, 1, 1, 9, 9, 4, 9, 9, 0, 7,
      0, 6, 4, 4, 3, 7, 8, 6, 6, 2, 1, 0, 9, 3, 7, 5>>

\* The fraction, as digits after the point, is at least the fraction t.
fraction_at_least(fraction, t) ==
    LET n == IF Len(fraction) > Len(t) THEN Len(fraction) ELSE Len(t)
        a(i) == IF i <= Len(fraction) THEN int(fraction[i]) ELSE 0
        b(i) == IF i <= Len(t) THEN t[i] ELSE 0
        differ == {i \in 1..n : a(i) # b(i)}
    IN  \/ differ = {}
        \/ LET k == CHOOSE i \in differ : \A j \in differ : i <= j
           IN  a(k) > b(k)

\* float(match.group(3)) >= 60: the number is rounded to the nearest
\* double, ties to even, and 60.0 is even.
seconds_at_least_60(whole, fraction) ==
    \/ int_str(whole) >= 60
    \/ int_str(whole) = 59 /\ fraction_at_least(fraction, half_ulp_below_60)

\* dms_coordinate, lines 130-171
dms_coordinate(v) ==
    LET match == dms_match(v)
        degrees == int_str(match.group1)
        minutes == int_str(match.group2)
        direction == direction_of(match.group4)
    IN  IF ~match.matched THEN Return(FALSE)
        ELSE IF minutes > 59 \/ seconds_at_least_60(match.whole, match.fraction)
        THEN Return(FALSE)
        ELSE IF direction \in {"N", "S"} /\ degrees > 90 THEN Return(FALSE)
        ELSE IF direction \in {"E", "W"} /\ degrees > 180 THEN Return(FALSE)
        ELSE Return(TRUE)

-----------------------------------------------------------------------------
(* high_entropy_token, verification.py:174-217 *)

allowed_chars ==
    Range(ascii_uppercase) \cup Range(ascii_lowercase) \cup AsciiDigit
        \cup {"_", "-", "+", "/", ".", "="}

\* Counter(value)[c]
char_count(v, c) == Cardinality({i \in 1..Len(v) : v[i] = c})

\* math.log2(k) for k = 1..40, in millionths.  The doubles of the code are
\* modelled by fixed-point numbers; both give log2 of a power of two
\* exactly.
log2_millionths ==
    <<0, 1000000, 1584963, 2000000, 2321928, 2584963, 2807355, 3000000,
      3169925, 3321928, 3459432, 3584963, 3700440, 3807355, 3906891, 4000000,
      4087463, 4169925, 4247928, 4321928, 4392317, 4459432, 4523562, 4584963,
      4643856, 4700440, 4754888, 4807355, 4857981, 4906891, 4954196, 5000000,
      5044394, 5087463, 5129283, 5169925, 5209453, 5247928, 5285402, 5321928>>

\* length * (count / length) * math.log2(count / length), in millionths.
entropy_term(count, length) ==
    count * (log2_millionths[count] - log2_millionths[length])

\* sum(... for count in char_counts.values()) over the characters S of v,
\* times the length, in millionths.
RECURSIVE entropy_sum(_, _)
entropy_sum(v, S) ==
    IF S = {} THEN 0
    ELSE LET c == CHOOSE x \in S : TRUE
         IN  entropy_term(char_count(v, c), Len(v)) + entropy_sum(v, S \ {c})

\* length * entropy of line 209, in millionths.
entropy_by_length(v) == 0 - entropy_sum(v, Range(v))

\* min_entropy of line 215, in millionths.
min_entropy == 4000000

\* A threshold that the entropy has to exceed.
entropy_above_min(v) == entropy_by_length(v) > min_entropy * Len(v)

\* entropy >= min_entropy, line 217
entropy_at_least_min(v) == entropy_by_length(v) >= min_entropy * Len(v)

\* high_entropy_token, lines 174-217
high_entropy_token(v) ==
    IF Len(v) < 20 THEN Return(FALSE)
    ELSE IF \E i \in 1..Len(v) : v[i] \in {" ", "\n", "\r", "\t"}
    THEN Return(FALSE)
    ELSE IF \E i \in 1..Len(v) : v[i] \notin allowed_chars THEN Return(FALSE)
    ELSE Return(entropy_at_least_min(v))

-----------------------------------------------------------------------------
(* One call of a built-in verifier on a text, verification.py:1838-1875 *)

\* VERIFICATION_FUNCTIONS[fn](v) for the built-ins modelled above.
builtin(fn, v) ==
    CASE fn = "iban_mod97" -> iban_mod97(v)
      [] fn = "luhn" -> luhn(v)
      [] fn = "credit_card_bin_valid" -> credit_card_bin_valid(v)
      [] fn = "kr_rrn_valid" -> kr_rrn_valid(v)
      [] fn = "kr_alien_registration_valid" -> kr_alien_registration_valid(v)
      [] fn = "poland_pesel_valid" -> poland_pesel_valid(v)
      [] fn = "sweden_personnummer_valid" -> sweden_personnummer_valid(v)
      [] fn = "belgium_rrn_valid" -> belgium_rrn_valid(v)
      [] fn = "finland_hetu_valid" -> finland_hetu_valid(v)
      [] fn = "kr_business_registration_valid" -> kr_business_registration_valid(v)
      [] fn = "kr_corporate_registration_valid" -> kr_corporate_registration_valid(v)
      [] fn = "jp_my_number_valid" -> jp_my_number_valid(v)
      [] fn = "india_aadhaar_valid" -> india_aadhaar_valid(v)
      [] fn = "netherlands_bsn_valid" -> netherlands_bsn_valid(v)
      [] fn = "not_timestamp" -> not_timestamp(v)
      [] fn = "korean_bank_account_valid" -> korean_bank_account_valid(v)
      [] fn = "generic_number_not_timestamp" -> generic_number_not_timestamp(v)
      [] fn = "not_repeating_pattern" -> not_repeating_pattern(v)
      [] fn = "ipv4_public" -> ipv4_public(v)
      [] fn = "dms_coordinate" -> dms_coordinate(v)
      [] fn = "high_entropy_token" -> high_entropy_token(v)

\* The characters a caller's formatting may add to the text of a call.
Inserted(fn) ==
    CASE fn = "iban_mod97" -> {" ", "-"}
      [] fn \in {"not_timestamp", "korean_bank_account_valid"} -> {"-", "sup2"}
      [] fn = "generic_number_not_timestamp" -> {"-", "/", " ", "sup2"}
      [] fn = "credit_card_bin_valid" -> {"-", "sup2"}
      [] fn \in {"korean_zipcode_valid", "us_zipcode_valid"} -> {"-", "a", "sup2"}
      [] fn = "not_repeating_pattern" -> {"1", "a", "sup2"}
      [] fn = "ipv4_public" -> {".", "0", " ", "_", "+", "-", "sup2"}
      [] fn = "dms_coordinate" -> {" ", "0", "x", "N"}
      [] fn = "high_entropy_token" -> {" ", "@", "a", "x"}
      [] OTHER -> {"-", "a"}

\* The matched text reaches the verifier with one more character in it.
InsertChar ==
    /\ result = NotCalled
    /\ Len(text) - Len(original) < MaxInserts
    /\ \E i \in 0..Len(text), c \in Inserted(verifier) :
           text' = InsertAt(text, i, c)
    /\ UNCHANGED <<verifier, original, result, calls, regVars, dataVars, luhnVars>>

\* verifier(text) is called and returns or raises.
CallVerifier ==
    /\ result = NotCalled
    /\ result' = builtin(verifier, text)
    /\ UNCHANGED <<verifier, original, text, calls, regVars, dataVars, luhnVars>>

NextCall == InsertChar \/ CallVerifier

\* verifier(text) is called once more, whatever the registry holds by now;
\* the `return luhn(...)` of lines 1184 and 1657 names the module's function.
CallDirect ==
    /\ Len(calls) < MaxCalls
    /\ result' = builtin(verifier, text)
    /\ calls' = Append(calls, [registry |-> VERIFICATION_FUNCTIONS,
                               outcome |-> result'])
    /\ UNCHANGED <<verifier, original, text, regVars, dataVars, luhnVars>>

NextRebind == Register \/ Unregister \/ CallDirect

\* A call of fn on one of the texts.
InitCall(fn, texts) ==
    /\ verifier = fn
    /\ original \in texts
    /\ text = original
    /\ result = NotCalled
    /\ calls = <<>>

\* The ASCII digits of a sequence of numbers 0..9.
D(ns) == [i \in 1..Len(ns) |-> DigitChars[ns[i] + 1]]

\* IBANs: country and check digits, bank code, account number; with a
\* wrong check digit, in lower case, with non-ASCII letters and digits; and
\* texts shorter than the 4 characters that are moved.
IbanTexts ==
    {head \o bank \o D(<<1, 2>>) \o three \o D(<<4, 5, 6, 9, 8, 7, 6, 5, 4>>)
          \o three \o last :
        head  \in {<<"G", "B", "8", "2">>, <<"G", "B", "8", "3">>,
                   <<"g", "b", "8", "2">>, <<"G", "B", "7", "2">>},
        bank  \in {<<"W", "E", "S", "T">>, <<"w", "e", "s", "t">>,
                   <<"W", "Eacute", "S", "T">>, <<"W", "eacute", "S", "T">>,
                   <<"W", "E", "$", "T">>},
        three \in {<<"3">>, <<"ar3">>},
        last  \in {<<"2">>, <<"sup2">>}}
    \cup {<<>>, <<"1">>, <<"9", "8">>, <<"9", "7">>, <<"B">>, <<" ">>,
          <<"0", "0", "1">>, <<"1", "9", "5">>}

\* Card numbers: a leading part at and around every BIN range, written in
\* ASCII or with a non-ASCII digit, zeros up to the length, a last digit.
CardPrefixes ==
    {D(<<4>>), D(<<1>>), D(<<5, 0>>), D(<<5, 1>>), D(<<5, 5>>), D(<<5, 6>>),
     D(<<2, 2, 2, 0>>), D(<<2, 2, 2, 1>>), D(<<2, 7, 2, 0>>), D(<<2, 7, 2, 1>>),
     D(<<3, 4>>), D(<<3, 5>>), D(<<3, 7>>), D(<<6, 0, 1, 1>>), D(<<6, 0, 1, 0>>),
     D(<<6, 5>>), D(<<6, 4, 3>>), D(<<6, 4, 4>>), D(<<6, 4, 9>>),
     D(<<6, 2, 2, 1, 2, 6>>), D(<<6, 1>>), D(<<6, 2>>),
     D(<<3, 5, 2, 7>>), D(<<3, 5, 2, 8>>), D(<<3, 5, 8, 9>>), D(<<3, 5, 9, 0>>),
     D(<<3, 6>>), D(<<3, 8>>), D(<<3, 9>>), D(<<3, 0, 0>>), D(<<3, 0, 5>>),
     D(<<3, 0, 6>>),
     <<"ar4">>, <<"ar3", "4">>, <<"ar3", "9">>, <<"4", "sup2">>, <<"5", "sup2">>}
CardLengths == {12, 13, 16, 19, 20}
CardTexts ==
    {prefix \o D(zeros(n - Len(prefix) - 1)) \o D(<<last>>) :
        prefix \in CardPrefixes, n \in CardLengths, last \in 0..9}

\* Birth dates as the digits YYMMDD: valid ones, 29 February in years that
\* are leap in both centuries, in one, in none, 30 February, 31 April, and
\* months and days out of range.
BirthDates ==
    {<<9, 0, 0, 1, 0, 1>>, <<9, 0, 1, 2, 3, 1>>, <<0, 4, 0, 2, 2, 9>>,
     <<0, 0, 0, 2, 2, 9>>, <<0, 1, 0, 2, 2, 9>>, <<9, 0, 0, 2, 3, 0>>,
     <<9, 0, 0, 4, 3, 1>>, <<9, 0, 1, 3, 0, 1>>, <<9, 0, 0, 0, 0, 1>>,
     <<9, 0, 0, 1, 0, 0>>, <<9, 0, 0, 1, 3, 2>>, <<1, 1, 1, 1, 1, 1>>}

\* The same date as DDMMYY.
DayFirst(date) == <<date[5], date[6], date[3], date[4], date[1], date[2]>>

\* The same date with k centuries added to its month (PESEL).
MonthPlus(date, k) ==
    <<date[1], date[2], date[3] + 2 * k, date[4], date[5], date[6]>>

\* Resident registration numbers: date, century digit, serial, check digit;
\* one with all digits equal, some with a non-ASCII digit.
RrnTexts ==
    {D(date \o <<g, 2, 3, 4, 5, 6, c>>) :
        date \in BirthDates, g \in 0..5, c \in 0..9}
    \cup {D(<<1, 1, 1, 1, 1, 1, 1, 1, 1, 1, 1, 1, 1>>)}
    \cup {D(<<9, 0, 0, 1, 0, 1, 1>>) \o serial \o D(<<c>>) :
            serial \in {<<"2", "ar3", "4", "5", "6">>, <<"sup2", "3", "4", "5", "6">>},
            c \in 0..9}
    \cup {<<"9", "0", "0", "1", "0", "1", "1", "2", "3", "4", "5", "6", "sup2">>,
          <<"9", "0", "0", "sup2", "0", "1", "1", "2", "3", "4", "5", "6", "8">>}

AlienTexts ==
    {D(date \o <<g, 2, 3, 4, 5, 6, 7>>) : date \in BirthDates, g \in 4..9}

PeselTexts ==
    {D(MonthPlus(date, k) \o <<1, 2, 3, 4, c>>) :
        date \in BirthDates, k \in {0, 1, 4}, c \in 0..9}

PersonnummerTexts ==
    {D(century \o date \o <<1, 2, 3, c>>) :
        century \in {<<>>, <<1, 9>>, <<2, 0>>}, date \in BirthDates, c \in 0..9}

BelgianDates ==
    {<<9, 0, 0, 1, 0, 1>>, <<0, 0, 0, 2, 2, 9>>, <<0, 1, 0, 2, 2, 9>>,
     <<9, 0, 0, 2, 3, 0>>, <<9, 0, 0, 4, 3, 1>>, <<9, 0, 1, 3, 0, 1>>}
BelgianTexts ==
    {D(date \o <<1, 2, 3, c1, c2>>) :
        date \in BelgianDates, c1 \in 0..9, c2 \in 0..9}

HetuTexts ==
    {D(DayFirst(date)) \o <<sign>> \o D(<<1, 2, 3>>) \o <<q>> :
        date \in BelgianDates, sign \in {"+", "-", "A"},
        q \in Range(check_sequence)}

BusinessTexts ==
    {D(body \o <<c>>) :
        body \in {<<1, 2, 3, 4, 5, 6, 7, 8, 9>>, <<2, 2, 0, 8, 1, 6, 2, 5, 1>>},
        c \in 0..9}
CorporateTexts ==
    {D(body \o <<c>>) :
        body \in {<<1, 1, 0, 1, 1, 1, 1, 2, 3, 4, 5, 6>>,
                  <<1, 2, 3, 4, 5, 6, 1, 2, 3, 4, 5, 6>>},
        c \in 0..9}
MyNumberTexts ==
    {D(body \o <<c>>) :
        body \in {<<1, 2, 3, 4, 5, 6, 7, 8, 9, 0, 1>>,
                  <<6, 1, 4, 1, 0, 6, 5, 2, 6, 0, 0>>},
        c \in 0..9}
AadhaarTexts ==
    {D(body \o <<c>>) :
        body \in {<<2, 3, 4, 1, 2, 3, 4, 1, 2, 3, 4>>,
                  <<1, 3, 4, 1, 2, 3, 4, 1, 2, 3, 4>>},
        c \in 0..9}
BsnTexts ==
    {D(body \o <<c>>) :
        body \in {<<1, 1, 1, 2, 2, 2, 3, 3>>, <<1, 2, 3, 4, 5, 6, 7>>},
        c \in 0..9}

\* The verifiers that end in a call of luhn, each with a few texts: Visa
\* numbers of 16 digits and personnummer of one birth date, every check digit.
LuhnCallers == {"credit_card_bin_valid", "sweden_personnummer_valid"}
DirectTexts(fn) ==
    IF fn = "credit_card_bin_valid"
    THEN {t \in CardTexts : Len(t) = 16 /\ t[1] = "4" /\ t[2] = "0"}
    ELSE {t \in PersonnummerTexts :
              Len(t) = 10 /\ SubSeq(t, 1, 6) = D(<<9, 0, 0, 1, 0, 1>>)}

\* The verifiers of composite IDs and of checksums, each with its texts.
IdTexts(fn) ==
    CASE fn = "kr_rrn_valid" -> RrnTexts
      [] fn = "kr_alien_registration_valid" -> AlienTexts
      [] fn = "poland_pesel_valid" -> PeselTexts
      [] fn = "sweden_personnummer_valid" -> PersonnummerTexts
      [] fn = "belgium_rrn_valid" -> BelgianTexts
      [] fn = "finland_hetu_valid" -> HetuTexts
      [] fn = "kr_business_registration_valid" -> BusinessTexts
      [] fn = "kr_corporate_registration_valid" -> CorporateTexts
      [] fn = "jp_my_number_valid" -> MyNumberTexts
      [] fn = "india_aadhaar_valid" -> AadhaarTexts
      [] fn = "netherlands_bsn_valid" -> BsnTexts

DateVerifiers ==
    {"kr_rrn_valid", "kr_alien_registration_valid", "poland_pesel_valid",
     "finland_hetu_valid", "belgium_rrn_valid", "sweden_personnummer_valid"}
DigitVerifiers ==
    {"kr_rrn_valid", "kr_business_registration_valid",
     "kr_corporate_registration_valid", "jp_my_number_valid",
     "poland_pesel_valid", "india_aadhaar_valid", "netherlands_bsn_valid",
     "belgium_rrn_valid"}

\* Numbers at and around the timestamp ranges: a leading part (bank
\* prefixes, the ends of the ranges, a non-ASCII digit) filled with one
\* digit up to a length.
StampHeads ==
    {D(<<0>>), D(<<1>>), D(<<9>>), D(<<1, 5, 9>>), D(<<1, 6>>), D(<<1, 7>>),
     D(<<1, 8>>), D(<<1, 1, 0>>), D(<<1, 2, 0>>), D(<<1, 5, 0>>), D(<<1, 9, 0>>),
     D(<<8, 3, 0>>), D(<<1, 0, 0, 2>>), D(<<3, 0, 1>>), D(<<3, 3, 3, 3>>),
     D(<<1, 0, 0>>), D(<<3, 0, 0>>), <<"ar3", "0", "1">>, <<"1", "sup2">>}
StampLengths == {4, 9, 10, 11, 13, 14}
StampNumbers ==
    {head \o D([i \in 1..(n - Len(head)) |-> fill]) :
        head \in StampHeads, n \in StampLengths, fill \in {0, 9}}

\* Compact datetimes YYYYMMDDHHMMSS with dates and times at and around the
\* tested ranges, alone or followed by one more digit.
StampDates ==
    {<<2, 0, 2, 3, 0, 1, 0, 1>>, <<2, 0, 2, 3, 0, 2, 3, 1>>,
     <<2, 0, 2, 3, 0, 2, 2, 9>>, <<1, 8, 9, 9, 1, 2, 3, 1>>,
     <<1, 9, 0, 0, 0, 1, 0, 1>>, <<2, 0, 9, 9, 1, 2, 3, 1>>,
     <<2, 1, 0, 0, 0, 1, 0, 1>>, <<2, 0, 2, 3, 1, 3, 0, 1>>,
     <<2, 0, 2, 3, 0, 0, 0, 1>>, <<2, 0, 2, 3, 0, 1, 0, 0>>,
     <<2, 0, 2, 3, 0, 1, 3, 2>>, <<2, 0, 2, 2, 1, 1, 1, 1>>}
StampTimes ==
    {<<0, 0, 0, 0, 0, 0>>, <<2, 3, 5, 9, 5, 9>>, <<2, 4, 0, 0, 0, 0>>,
     <<2, 3, 6, 0, 0, 0>>, <<2, 3, 5, 9, 6, 0>>, <<9, 9, 9, 9, 9, 9>>}
StampDatetimes ==
    {D(date \o time \o more) :
        date \in StampDates, time \in StampTimes, more \in {<<>>, <<0>>}}

\* Numbers with a run of digits each one greater than the one before.
StampRuns ==
    {D(<<9, 9>> \o run \o tail) :
        run  \in {<<1, 2, 3, 4, 5>>, <<2, 3, 4, 5, 6, 7>>, <<1, 2, 3, 4, 5, 6, 7>>,
                  <<0, 1, 2, 3, 4, 5, 6, 7, 8, 9>>},
        tail \in {<<9, 9>>, <<9, 9, 1>>, <<9, 9, 1, 9, 9>>}}

StampTexts ==
    StampNumbers \cup StampDatetimes \cup StampRuns
        \cup {<<>>, <<"a", "b", "c">>, <<"-">>}

StampVerifiers ==
    {"not_timestamp", "korean_bank_account_valid", "generic_number_not_timestamp"}

\* Every text of up to n characters over the alphabet.
RECURSIVE Strings(_, _)
Strings(alphabet, n) ==
    IF n = 0 THEN {<<>>}
    ELSE LET shorter == Strings(alphabet, n - 1)
         IN  shorter \cup {Append(t, c) : t \in shorter, c \in alphabet}

\* Texts with and without a pattern: every text of up to PatternLen
\* characters of "1", "2", "a", and longer runs, tiles and near misses.
PatternLen == 5
PatternTexts ==
    Strings({"1", "2", "a"}, PatternLen) \cup
    {D(<<1, 2, 3, 4>>), D(<<4, 3, 2, 1>>), D(<<2, 3, 4, 5, 6>>),
     D(<<1, 2, 3, 5>>), D(<<1, 3, 5, 7>>), D(<<9, 8, 7, 6, 5, 4>>),
     <<"1", "a", "2", "b", "3", "c", "4">>, <<"a", "b", "c", "d">>,
     <<"1", "2", "sup2", "4">>, <<"1", "2", "ar3", "4">>,
     <<"sup2", "1", "3", "5">>, <<"1", "3", "5", "sup2">>,
     D(<<1, 2, 3, 1, 2, 3>>), D(<<1, 2, 3, 1, 2>>), D(<<1, 2, 3, 1>>),
     D(<<1, 2, 3, 1, 2, 3, 1>>), D(<<1, 2, 3, 1, 2, 4>>),
     D(<<1, 2, 1, 2, 1, 2, 1>>), D(<<1, 2, 1, 2, 1, 2>>),
     <<"a", "b", "c", "a", "b", "c", "a", "b">>,
     <<"a", "b", "a", "b", "a">>, <<"a", "b", "a", "b", "b">>}

\* The text of an address: the decimal numbers of its parts, dots between.
RECURSIVE Dotted(_)
Dotted(ns) ==
    IF Len(ns) = 0 THEN <<>>
    ELSE IF Len(ns) = 1 THEN str(ns[1])
    ELSE str(ns[1]) \o <<".">> \o Dotted(Tail(ns))

\* Addresses at both ends of every reserved block and next to them,
\* addresses with an octet out of range or with 3 or 5 parts.
Addresses ==
    {<<0, 1, 1, 1>>, <<1, 1, 1, 1>>, <<8, 8, 8, 8>>, <<9, 255, 255, 255>>,
     <<10, 0, 0, 0>>, <<10, 255, 255, 255>>, <<11, 0, 0, 0>>,
     <<126, 1, 1, 1>>, <<127, 0, 0, 1>>, <<128, 0, 0, 1>>,
     <<169, 253, 1, 1>>, <<169, 254, 1, 1>>, <<169, 255, 1, 1>>,
     <<168, 254, 1, 1>>, <<172, 15, 255, 255>>, <<172, 16, 0, 0>>,
     <<172, 31, 255, 255>>, <<172, 32, 0, 0>>, <<171, 16, 0, 0>>,
     <<192, 0, 1, 1>>, <<192, 0, 2, 1>>, <<192, 0, 3, 1>>, <<192, 1, 2, 1>>,
     <<191, 0, 2, 1>>, <<192, 167, 1, 1>>, <<192, 168, 1, 1>>,
     <<192, 169, 1, 1>>, <<198, 51, 99, 1>>, <<198, 51, 100, 1>>,
     <<198, 51, 101, 1>>, <<198, 50, 100, 1>>, <<197, 51, 100, 1>>,
     <<203, 0, 112, 1>>, <<203, 0, 113, 1>>, <<203, 0, 114, 1>>,
     <<203, 1, 113, 1>>, <<204, 0, 113, 1>>, <<223, 255, 255, 255>>,
     <<224, 0, 0, 1>>, <<239, 255, 255, 255>>, <<240, 0, 0, 1>>,
     <<255, 255, 255, 255>>, <<256, 1, 1, 1>>, <<1, 256, 1, 1>>,
     <<1, 1, 1, 256>>, <<1, 0, 0, 0>>, <<8, 8, 8>>, <<8, 8, 8, 8, 8>>,
     <<8>>, <<>>}

\* The addresses as texts, and texts whose parts are no plain numbers.
AddressTexts ==
    {Dotted(a) : a \in Addresses} \cup
    {<<"ar3", ".", "8", ".", "8", ".", "8">>,
     <<"1", "ar3", ".", "8", ".", "8", ".", "8">>,
     <<"0", "0", "8", ".", "8", ".", "8", ".", "8">>,
     <<"0", "1", "0", ".", "8", ".", "8", ".", "8">>,
     <<"8", ".", "8", ".", "8", ".", "a">>,
     <<"8", ".", "8", ".", "8", ".", "8", "\n">>,
     <<"8", ".", ".", "8", ".", "8">>,
     <<"1", "_", "0", ".", "8", ".", "8", ".", "8">>,
     <<"8", ".", "8", ".", "8", ".", "-", "1">>}

\* Coordinates with degrees, minutes and seconds at and beyond their
\* limits, in every direction, and texts in other spellings.
DmsDegrees == {0, 37, 90, 91, 180, 181}
DmsMinutes == {0, 59, 60}
DmsSeconds ==
    {D(<<0>>), D(<<5, 9>>), D(<<6, 0>>), <<"2", "9", ".", "7">>,
     <<"5", "9", ".", "9">>,
     <<"5", "9", ".">> \o [i \in 1..15 |-> "9"]}
DmsDirections == {"N", "S", "E", "W", "n", "longs"}
Coordinate(degrees, minutes, seconds, direction) ==
    str(degrees) \o <<"deg">> \o str(minutes) \o <<"prime">> \o seconds
        \o <<"dprime", direction>>
DmsTexts ==
    {Coordinate(d, m, sec, dir) :
         d \in DmsDegrees, m \in DmsMinutes, sec \in DmsSeconds,
         dir \in DmsDirections} \cup
    {<<"3", "7", "deg", " ", "4", "6", "prime", " ", "2", "9", ".", "7",
       "dprime", " ", "N">>,
     <<"3", "7", "deg", "4", "6", "prime", "2", "9", ".", "7", "dprime",
       "N", "o", "r", "t", "h">>,
     <<"ar3", "ar4", "deg", "4", "6", "prime", "2", "9", "dprime", "E">>,
     <<"3", "sup2", "deg", "4", "6", "prime", "2", "9", "dprime", "E">>,
     <<"3", "7", "deg", "4", "6", "prime", "2", "9", ".", "dprime", "N">>,
     <<"3", "7", "deg", "4", "6", "prime", "2", "9", "dprime">>,
     <<"3", "7", "deg", "4", "6", "'", "2", "9", "dprime", "N">>,
     <<"4", "0", ".", "1", "2", "3", "N">>, <<>>}

\* Tokens of n characters, k of them distinct: the k characters in turn,
\* or each once and then the first one only.
TokenChars ==
    <<"a", "B", "0", "_", "-", "+", "/", ".", "=", "Z", "z", "9",
      "c", "D", "e", "F", "g", "H", "i", "J", "k", "L", "m", "N">>
Spread(n, k) == [i \in 1..n |-> TokenChars[((i - 1) % k) + 1]]
Skewed(n, k) == [i \in 1..n |-> IF i <= k THEN TokenChars[i] ELSE TokenChars[1]]
TokenLengths == {19, 20, 32}
TokenKinds == {1, 8, 12, 15, 16, 17, 18, 19, 20, 24}
TokenTexts ==
    {Spread(n, k) : n \in TokenLengths, k \in TokenKinds} \cup
    UNION {{Skewed(n, k) : k \in {j \in TokenKinds : j <= n}} :
               n \in TokenLengths} \cup
    {[Spread(32, 24) EXCEPT ![5] = c] : c \in {"\t", "\n", "\r", "Eacute", "sup2"}}

\* Postal codes: in and out of the reference sets, the shapes the
\* heuristics reject, ZIP+4, other digit counts, non-ASCII digits.
ZipTexts ==
    {D(<<0, 6, 2, 3, 6>>), D(<<9, 0, 2, 1, 0>>), D(<<1, 2, 3, 4, 5>>),
     D(<<5, 4, 3, 2, 1>>), D(<<0, 0, 0, 0, 0>>), D(<<7, 7, 7, 7, 7>>),
     D(<<5, 0, 0, 0, 0>>), D(<<1, 3, 5, 7, 9>>), D(<<0, 1, 2, 3, 5>>),
     <<"1", "2", "3", "4", "sup2">>, <<"ar3", "0", "0", "0", "0">>,
     <<"ar3", "ar4", "5", "6", "7">>, <<"0", "6", "2", "ar3", "6">>,
     D(<<0, 6, 2, 3>>), D(<<0, 6, 2, 3, 6, 1>>),
     D(<<9, 0, 2, 1, 0, 1, 2, 3>>), D(<<9, 0, 2, 1, 0, 1, 2, 3, 4>>),
     D(<<1, 2, 3, 4, 5, 6, 7, 8, 9>>), D(<<5, 0, 0, 0, 0, 1, 2, 3, 4>>),
     D(<<7, 7, 7, 7, 7, 7, 7, 7, 7>>), D(<<0, 6, 2, 3, 6, 0, 0, 0, 0>>),
     D(<<9, 0, 2, 1, 0, 1, 2, 3, 4, 5>>), <<>>}

\* The sets _load_data_file may have cached for a postal-code file: empty
\* (no file, or no value in it) or the values of its lines.
ZipSets ==
    {{},
     {D(<<0, 6, 2, 3, 6>>)},
     {D(<<0, 6, 2, 3, 6>>), D(<<9, 0, 2, 1, 0>>), D(<<0, 0, 0, 0, 0>>)},
     {<<"0", "6", "2", "-", "3", "6">>, D(<<0, 6, 2, 3>>),
      D(<<9, 0, 2, 1, 0, 1, 2, 3, 4>>), <<"a", "0", "6", "2", "3", "6">>}}

\* Lines 298 and 346 with the file already loaded (lines 32-33), then the
\* rest of the verifier: it returns or raises.
CallZipVerifier ==
    /\ result = NotCalled
    /\ verifier \in Verifiers
    /\ data_file(verifier) \in DOMAIN DATA_CACHE
    /\ result' = verify(verifier, text, DATA_CACHE[data_file(verifier)])
    /\ UNCHANGED <<verifier, original, text, calls, regVars, dataVars, luhnVars>>

NextZip == InsertChar \/ CallZipVerifier

-----------------------------------------------------------------------------
(* Specifications *)

\* The parts a specification leaves at rest.
RestData ==
    /\ DATA_CACHE = [f \in {} |-> {}]
    /\ file = [f \in Filenames |-> Absent]
    /\ fileChanges = 0
    /\ reads = [f \in Filenames |-> 0]
    /\ writes = [f \in Filenames |-> 0]
    /\ loader = [t \in Threads |->
                   [Calling("korean_zipcode_valid", <<>>) EXCEPT !.pc = "done"]]

RestLuhn ==
    /\ base = <<>>
    /\ value = <<>>
    /\ outcome = NotCalled
    /\ baseOutcome = NotCalled

RestCall ==
    /\ verifier = None
    /\ original = <<>>
    /\ text = <<>>
    /\ result = NotCalled
    /\ calls = <<>>

\* The registry under serialised register/unregister calls and concurrent
\* scanning threads.
Init == InitRegistry /\ RestData /\ RestLuhn /\ RestCall
Next == NextRegistry
Spec == Init /\ [][Next]_vars

\* The registry under unregister calls of two threads that are not
\* serialised.
SpecRemoval == Init /\ [][NextRemoval]_vars

\* The reference data cache under concurrent verifier calls, the data files
\* changing meanwhile.
InitCache == InitRegistry /\ InitData /\ RestLuhn /\ RestCall
NextCache == NextData
SpecCache == InitCache /\ [][NextCache]_vars

\* luhn on every string up to MaxLen characters.
InitStrings == InitRegistry /\ RestData /\ InitLuhn /\ RestCall
NextLuhn    == InsertSeparator \/ CallLuhn
SpecLuhn    == InitStrings /\ [][NextLuhn]_vars

\* One call of iban_mod97.
InitIban ==
    InitRegistry /\ RestData /\ RestLuhn /\ InitCall("iban_mod97", IbanTexts)
SpecIban == InitIban /\ [][NextCall]_vars

\* One call of credit_card_bin_valid.
InitCard ==
    /\ InitRegistry /\ RestData /\ RestLuhn
    /\ InitCall("credit_card_bin_valid", CardTexts)
SpecCard == InitCard /\ [][NextCall]_vars

\* One call of kr_rrn_valid.
InitRrn ==
    InitRegistry /\ RestData /\ RestLuhn /\ InitCall("kr_rrn_valid", RrnTexts)
SpecRrn == InitRrn /\ [][NextCall]_vars

\* One call of a composite-ID or checksum verifier.
InitIds ==
    /\ InitRegistry /\ RestData /\ RestLuhn
    /\ \E fn \in DateVerifiers \cup DigitVerifiers : InitCall(fn, IdTexts(fn))
SpecIds == InitIds /\ [][NextCall]_vars

\* One call of a timestamp verifier.
InitStamps ==
    /\ InitRegistry /\ RestData /\ RestLuhn
    /\ \E fn \in StampVerifiers : InitCall(fn, StampTexts)
SpecStamps == InitStamps /\ [][NextCall]_vars

\* One call of a postal-code verifier, its data file loaded before.
InitZip ==
    /\ InitRegistry /\ RestLuhn
    /\ \E fn \in Verifiers :
           /\ InitCall(fn, ZipTexts)
           /\ \E valid_zips \in ZipSets :
                  DATA_CACHE = [f \in {data_file(fn)} |-> valid_zips]
    /\ file = [f \in Filenames |-> Absent]
    /\ fileChanges = 0
    /\ reads = [f \in Filenames |-> 0]
    /\ writes = [f \in Filenames |-> 0]
    /\ loader = [t \in Threads |->
                   [Calling("korean_zipcode_valid", <<>>) EXCEPT !.pc = "done"]]
SpecZip == InitZip /\ [][NextZip]_vars

\* One call of not_repeating_pattern.
InitPattern ==
    /\ InitRegistry /\ RestData /\ RestLuhn
    /\ InitCall("not_repeating_pattern", PatternTexts)
SpecPattern == InitPattern /\ [][NextCall]_vars

\* One call of ipv4_public.
InitIp ==
    /\ InitRegistry /\ RestData /\ RestLuhn
    /\ InitCall("ipv4_public", AddressTexts)
SpecIp == InitIp /\ [][NextCall]_vars

\* One call of dms_coordinate.
InitDms ==
    /\ InitRegistry /\ RestData /\ RestLuhn
    /\ InitCall("dms_coordinate", DmsTexts)
SpecDms == InitDms /\ [][NextCall]_vars

\* One call of high_entropy_token.
InitToken ==
    /\ InitRegistry /\ RestData /\ RestLuhn
    /\ InitCall("high_entropy_token", TokenTexts)
SpecToken == InitToken /\ [][NextCall]_vars

\* credit_card_bin_valid and sweden_personnummer_valid called between
\* register and unregister calls.
InitRebind ==
    /\ InitRegistry /\ RestData /\ RestLuhn
    /\ \E fn \in LuhnCallers : InitCall(fn, DirectTexts(fn))
SpecRebind == InitRebind /\ [][NextRebind]_vars

-----------------------------------------------------------------------------
(* Properties *)

AllNames == BuiltinNames \cup ScanNames

\* C1: after register_verification_function(name, fn) the lookup of name
\* returns fn, whether or not name was bound before (a built-in included),
\* nothing is raised, and every other name is looked up as before the call.
RegisterBindsName ==
    regOp.kind = "register" =>
        /\ regOp.exc = "none"
        /\ get_verification_function(VERIFICATION_FUNCTIONS, regOp.name) = regOp.func
        /\ \A n \in AllNames \ {regOp.name} :
               get_verification_function(VERIFICATION_FUNCTIONS, n)
                   = get_verification_function(regOp.before, n)

\* C1 witness: a registration has replaced the built-in bound to "luhn".
RegisterReplacedBuiltin ==
    /\ regOp.kind = "register"
    /\ regOp.name = "luhn"
    /\ get_verification_function(regOp.before, "luhn") = "luhn"
    /\ get_verification_function(VERIFICATION_FUNCTIONS, "luhn") = "custom_verify"

\* C2: unregister_verification_function(name) raises nothing, returns true
\* exactly when name was bound when it was called, leaves name unbound, and
\* when name was not bound leaves the whole registry as it was.
UnregisterReportsRemoval ==
    regOp.kind = "unregister" =>
        /\ regOp.exc = "none"
        /\ regOp.ret = (regOp.name \in DOMAIN regOp.before)
        /\ get_verification_function(VERIFICATION_FUNCTIONS, regOp.name) = None
        /\ (~regOp.ret => VERIFICATION_FUNCTIONS = regOp.before)

\* C2 witness: an unregistration has removed the built-in bound to "luhn"
\* and returned true.
UnregisterRemovedBuiltin ==
    /\ regOp.kind = "unregister"
    /\ regOp.name = "luhn"
    /\ regOp.ret = TRUE
    /\ get_verification_function(regOp.before, "luhn") = "luhn"
    /\ get_verification_function(VERIFICATION_FUNCTIONS, "luhn") = None

\* C3: a lookup that interleaves with register/unregister returns None or a
\* function that was bound to the name at some moment; the function a
\* thread holds stays the same function while the registry changes under
\* it, its call can always run on, and it ends with that function's answer.
HeldVerifierSurvives ==
    /\ [](\A t \in Scanners :
            /\ scan[t].pc # "idle" =>
                   scan[t].fn \in Bound(everBound, scan[t].name) \cup {None}
            /\ scan[t].pc = "calling" => ENABLED EndCall(t)
            /\ scan[t].pc = "done" =>
                   scan[t].result = IF scan[t].fn = None THEN NotCalled
                                    ELSE Apply(scan[t].fn, scan[t].value))
    /\ [][\A t \in Scanners :
            scan[t].pc \in {"holding", "calling"} => scan'[t].fn = scan[t].fn]_vars

\* C3 witness: a call has completed on a function that the registry no
\* longer binds to the name it was looked up under.
CallOutlivedBinding ==
    \E t \in Scanners :
        /\ scan[t].pc = "done"
        /\ scan[t].fn # None
        /\ scan[t].result = Apply(scan[t].fn, scan[t].value)
        /\ get_verification_function(VERIFICATION_FUNCTIONS, scan[t].name) # scan[t].fn

\* C4: racing first calls of _load_data_file for one filename converge on
\* one read of the file and one store into the cache.
SingleFlightLoad ==
    \A f \in Filenames : reads[f] <= 1 /\ writes[f] <= 1

\* C5: once a call of _load_data_file(filename) has returned, which leaves
\* an entry for filename in the cache, that entry is never removed and
\* never holds another set, whatever happens to the file.
CacheEntryWriteOnce ==
    [][\A f \in DOMAIN DATA_CACHE :
           f \in DOMAIN DATA_CACHE' /\ DATA_CACHE'[f] = DATA_CACHE[f]]_vars

\* The verifier's answer by its heuristic rules alone.
heuristic(fn, v) ==
    IF fn = "korean_zipcode_valid" THEN korean_zipcode_heuristic(v)
    ELSE us_zipcode_heuristic(v)

\* C6: when the data file is absent or reading it fails, _load_data_file
\* raises nothing and returns the empty set, and the verifier that called
\* it answers by its heuristic rules.
LoadFailureFallsBack ==
    \A t \in Threads :
        /\ loader[t].how \in {"absent", "failed"} => loader[t].values = {}
        /\ \A k \in 1..Len(loader[t].results) :
               loader[t].results[k].how \in {"absent", "failed"} =>
                   loader[t].results[k].out = heuristic(loader[t].fn, loader[t].arg)

\* C6 witness: a read of an existing file failed and the verifier accepted
\* the value, which no membership test in an empty set does.
AcceptedAfterFailedRead ==
    \E t \in Threads : \E k \in 1..Len(loader[t].results) :
        /\ loader[t].results[k].how = "failed"
        /\ loader[t].results[k].out = Return(TRUE)

\* C7: a built-in verifier returns a boolean and never raises, whatever the
\* characters of its input.
VerifierNeverRaises ==
    outcome # NotCalled => outcome.exc = "none"

\* C8: successive calls of a verifier with the same input return the same
\* result, also when the data file changes between them.
SuccessiveCallsAgree ==
    \A t \in Threads : \A k \in 1..Len(loader[t].results) - 1 :
        loader[t].results[k].out = loader[t].results[k + 1].out

\* C9: luhn of a digit string with non-digit separators inserted anywhere
\* is luhn of the digit string.
LuhnIgnoresSeparators ==
    outcome # NotCalled => outcome = baseOutcome

\* C9 witness: a formatted number passes luhn.
FormattedNumberPasses ==
    /\ value # base
    /\ outcome = Return(TRUE)

\* The mod-10 sum as the documentation states it: the digits of v taken
\* right to left, every second one doubled, 9 subtracted from a doubled
\* value above 9.
RECURSIVE doubled_sum(_, _)
doubled_sum(ds, second) ==
    IF ds = <<>> THEN 0
    ELSE LET d == int(ds[Len(ds)])
             x == IF ~second THEN d ELSE IF 2 * d > 9 THEN 2 * d - 9 ELSE 2 * d
         IN  x + doubled_sum(SubSeq(ds, 1, Len(ds) - 1), ~second)

mod10_valid(v) ==
    LET ds == SelectSeq(v, isdigit)
    IN  ds # <<>> /\ doubled_sum(ds, FALSE) % 10 = 0

\* C10: luhn(v) is true exactly when v has a digit and its mod-10 sum is
\* divisible by 10, and false for every other input.
LuhnIsMod10 ==
    outcome # NotCalled => outcome = Return(mod10_valid(value))

\* On the strings whose digits are all decimal luhn is the mod-10 check.
LuhnIsMod10OnDecimalDigits ==
    (outcome # NotCalled /\ \A i \in 1..Len(value) : isdigit(value[i]) => isdecimal(value[i]))
        => outcome = Return(mod10_valid(value))

-----------------------------------------------------------------------------
(* Properties of the built-in verifiers *)

\* The number of decimal digits of the numbers 0..35.
width(n) == IF n < 10 THEN 1 ELSE 2

RECURSIVE total_width(_)
total_width(ns) == IF ns = <<>> THEN 0 ELSE width(Head(ns)) + total_width(Tail(ns))

RECURSIVE pow10_mod(_, _)
pow10_mod(k, m) == IF k = 0 THEN 1 % m ELSE (10 * pow10_mod(k - 1, m)) % m

\* The integer that the decimal numerals of ns, written one after the
\* other, denote, modulo m.
RECURSIVE denoted_mod(_, _)
denoted_mod(ns, m) ==
    IF ns = <<>> THEN 0
    ELSE (Head(ns) * pow10_mod(total_width(Tail(ns)), m)
              + denoted_mod(Tail(ns), m)) % m

\* A..Z -> 10..35, 0..9 pass through.
iban_remap(c) ==
    IF c \in AsciiDigit THEN int(c) ELSE 9 + IndexIn(ascii_uppercase, c)

\* The IBAN rule as stated: only A..Z and 0..9 once spaces are removed and
\* the text is upper-cased, and 1 modulo 97 with the first 4 characters
\* moved to the end.
IbanAccepted(v) ==
    LET s     == upper(remove_spaces(v))
        moved == Slice(s, 4, Len(s)) \o Slice(s, 0, 4)
    IN  /\ s # <<>>
        /\ \A i \in 1..Len(s) : s[i] \in Range(ascii_uppercase) \cup AsciiDigit
        /\ denoted_mod([i \in 1..Len(moved) |-> iban_remap(moved[i])], 97) = 1

\* C11: iban_mod97(v) is true exactly when v, spaces removed and
\* upper-cased, is made of A..Z and 0..9 only and is 1 modulo 97 after the
\* move and the remapping; it is false for every other text, the empty one
\* included; and spaces inserted into an accepted IBAN leave it accepted.
Mod97AcceptsExactlyIbans ==
    (verifier = "iban_mod97" /\ result # NotCalled) =>
        /\ result = Return(IbanAccepted(text))
        /\ (IbanAccepted(original) /\ remove_spaces(text) = remove_spaces(original))
               => result = Return(TRUE)

\* The texts without a non-ASCII letter or digit.
IsAscii(v) == \A i \in 1..Len(v) : v[i] \notin {"sup2", "ar3", "ar4", "Eacute", "eacute"}

\* On ASCII texts iban_mod97 is the stated rule.
Mod97AcceptsExactlyIbansInAscii ==
    (verifier = "iban_mod97" /\ result # NotCalled /\ IsAscii(text)) =>
        /\ result = Return(IbanAccepted(text))
        /\ (IbanAccepted(original) /\ remove_spaces(text) = remove_spaces(original))
               => result = Return(TRUE)

\* An IBAN with spaces inserted has been accepted.
SpacedIbanAccepted ==
    /\ verifier = "iban_mod97"
    /\ text # original
    /\ result = Return(TRUE)

\* The accepted BIN prefixes: number of digits, least and greatest value.
BinRanges ==
    {<<1, 4, 4>>, <<2, 51, 55>>, <<4, 2221, 2720>>, <<2, 34, 34>>,
     <<2, 37, 37>>, <<4, 6011, 6011>>, <<2, 65, 65>>, <<3, 644, 649>>,
     <<6, 622126, 622925>>, <<4, 3528, 3589>>, <<2, 62, 62>>, <<2, 36, 36>>,
     <<2, 38, 38>>, <<3, 300, 305>>}

\* The digits start with an accepted BIN prefix.
HasBinPrefix(digits) ==
    \E r \in BinRanges :
        /\ Len(digits) >= r[1]
        /\ int_ok(Slice(digits, 0, r[1]))
        /\ r[2] <= int_str(Slice(digits, 0, r[1]))
        /\ int_str(Slice(digits, 0, r[1])) <= r[3]

CardAccepted(v) ==
    LET digits == digits_of(v)
    IN  /\ Len(digits) >= 13 /\ Len(digits) <= 19
        /\ HasBinPrefix(digits)
        /\ luhn(digits) = Return(TRUE)

\* C12: credit_card_bin_valid(v) is true exactly when v has 13 to 19
\* digits that start with an accepted BIN prefix and pass luhn.
CardAcceptedExactlyByBinAndLuhn ==
    (verifier = "credit_card_bin_valid" /\ result # NotCalled) =>
        ((result = Return(TRUE)) <=> CardAccepted(text))

\* On ASCII texts credit_card_bin_valid returns whether the stated rule holds.
CardAcceptedExactlyByBinAndLuhnInAscii ==
    (verifier = "credit_card_bin_valid" /\ result # NotCalled /\ IsAscii(text)) =>
        result = Return(CardAccepted(text))

\* f[1] + ... + f[n]
RECURSIVE Sigma(_, _)
Sigma(f, n) == IF n = 0 THEN 0 ELSE f[n] + Sigma(f, n - 1)

\* The Gregorian calendar.
IsLeapYear(y) == (y % 4 = 0 /\ y % 100 # 0) \/ y % 400 = 0
DaysIn(m, y) ==
    IF m = 2 THEN (IF IsLeapYear(y) THEN 29 ELSE 28)
    ELSE IF m \in {4, 6, 9, 11} THEN 30 ELSE 31
IsCalendarDate(y, m, d) == m \in 1..12 /\ d \in 1..DaysIn(m, y)

\* The resident registration number rule as stated, on the 13 digits of v;
\* a digit that has no decimal value satisfies no condition on its value.
RrnAccepted(v) ==
    LET ds == digits_of(v)
        n  == [i \in 1..Len(ds) |-> int(ds[i])]
        w  == <<2, 3, 4, 5, 6, 7, 8, 9, 2, 3, 4, 5>>
    IN  /\ Len(ds) = 13
        /\ \A i \in 1..13 : isdecimal(ds[i])
        /\ n[7] \in 1..4
        /\ IsCalendarDate((IF n[7] \in {1, 2} THEN 1900 ELSE 2000) + 10 * n[1] + n[2],
                          10 * n[3] + n[4], 10 * n[5] + n[6])
        /\ \E i \in 2..13 : n[i] # n[1]
        /\ n[13] = (11 - (Sigma([i \in 1..12 |-> n[i] * w[i]], 12) % 11)) % 10

\* C13: kr_rrn_valid(v) is true exactly when v has 13 digits, the 7th in
\* 1..4, YYMMDD a calendar date of the century the 7th digit selects, the
\* digits not all equal, and the 13th digit the weighted check digit.
RrnAcceptedExactlyByRule ==
    (verifier = "kr_rrn_valid" /\ result # NotCalled) =>
        ((result = Return(TRUE)) <=> RrnAccepted(text))

\* C13 witness: a number dated 29 February 2000 is accepted, written with a
\* hyphen.
LeapDayRrnAccepted ==
    /\ verifier = "kr_rrn_valid"
    /\ SubSeq(original, 1, 7) = D(<<0, 0, 0, 2, 2, 9, 3>>)
    /\ text = InsertAt(original, 6, "-")
    /\ result = Return(TRUE)

\* The birth dates <<year, month, day>> a text states for a verifier: none
\* when the date fields are not decimal digits, one per century when the
\* format leaves the century open.
BirthDatesOf(fn, v) ==
    LET ds  == IF fn = "finland_hetu_valid" THEN upper(remove_spaces(v))
               ELSE IF fn = "sweden_personnummer_valid" /\ Len(digits_of(v)) = 12
               THEN Slice(digits_of(v), 2, 12)
               ELSE digits_of(v)
        n   == [i \in 1..Len(ds) |-> IF isdecimal(ds[i]) THEN int(ds[i]) ELSE 0]
        two(i) == 10 * n[i] + n[i + 1]
        full == digits_of(v)
    IN  IF Len(ds) < 7 \/ \E i \in 1..6 : ~isdecimal(ds[i]) THEN {}
        ELSE CASE fn = "kr_rrn_valid" ->
                    {<<(IF n[7] \in {1, 2} THEN 1900 ELSE 2000) + two(1), two(3), two(5)>>}
               [] fn = "kr_alien_registration_valid" ->
                    {<<(IF n[7] \in {5, 6} THEN 1900 ELSE 2000) + two(1), two(3), two(5)>>}
               [] fn = "poland_pesel_valid" ->
                    {<<(CASE two(3) \div 20 = 0 -> 1900 [] two(3) \div 20 = 1 -> 2000
                          [] two(3) \div 20 = 2 -> 2100 [] two(3) \div 20 = 3 -> 2200
                          [] OTHER -> 1800) + two(1),
                       two(3) % 20, two(5)>>}
               [] fn = "finland_hetu_valid" ->
                    {<<(CASE ds[7] = "+" -> 1800 [] ds[7] = "-" -> 1900
                          [] OTHER -> 2000) + two(5), two(3), two(1)>>}
               [] fn = "belgium_rrn_valid" ->
                    {<<c + two(1), two(3), two(5)>> : c \in {1900, 2000}}
               [] fn = "sweden_personnummer_valid" ->
                    IF Len(full) = 12 /\ isdecimal(full[1]) /\ isdecimal(full[2])
                    THEN {<<1000 * int(full[1]) + 100 * int(full[2]) + two(1),
                            two(3), two(5)>>}
                    ELSE {<<c + two(1), two(3), two(5)>> : c \in {1900, 2000}}

StatesCalendarDate(fn, v) ==
    \E date \in BirthDatesOf(fn, v) : IsCalendarDate(date[1], date[2], date[3])

\* C14: a composite-ID verifier that encodes a birth date accepts only
\* texts whose month is in 1..12 and whose day is a day of that month in
\* the Gregorian calendar.
DatedIdsStateCalendarDates ==
    (verifier \in DateVerifiers /\ result = Return(TRUE)) =>
        StatesCalendarDate(verifier, text)

\* The verifiers that call _is_valid_date accept calendar dates only.
DatedIdsCheckedByHelperStateCalendarDates ==
    (/\ verifier \in DateVerifiers
            \ {"sweden_personnummer_valid", "belgium_rrn_valid"}
     /\ result = Return(TRUE)) =>
        StatesCalendarDate(verifier, text)

\* The separators that the checksum family strips.
StrippedSeparators == {" ", "-", "/", "."}

\* A character that is not a digit remains once the separators are stripped.
NonDigitRemains(v) ==
    \E i \in 1..Len(v) : v[i] \notin StrippedSeparators /\ ~isdigit(v[i])

\* C15: a checksum verifier that requires digits returns false whenever a
\* non-digit character remains after the separators are stripped.
NonDigitTextRejected ==
    (verifier \in DigitVerifiers /\ result # NotCalled /\ NonDigitRemains(text))
        => result = Return(FALSE)

\* The digits of v and their values; a digit without a decimal value has
\* none, and a number that holds one has no value.
HasValue(ds) == \A i \in 1..Len(ds) : isdecimal(ds[i])
Values(ds) == [i \in 1..Len(ds) |-> int(ds[i])]

\* The value of the digits a..b of ds (at most 4 of them).
ValueOf(ds, a, b) ==
    Sigma([i \in 1..(b - a + 1) |-> int(ds[a + i - 1]) * (10 ^ (b - a + 1 - i))],
          b - a + 1)

\* n digits with a value in [10^(n-1), 10^n - 1]: no leading zero.
InFullRange(ds, n) == Len(ds) = n /\ HasValue(ds) /\ int(ds[1]) # 0

\* The first 8 digits are YYYYMMDD with year 1900..2099, month 1..12 and a
\* day up to lastDay(month, year).
StartsWithDate(ds, lastDay(_, _)) ==
    /\ Len(ds) >= 8
    /\ HasValue(SubSeq(ds, 1, 8))
    /\ ValueOf(ds, 1, 4) \in 1900..2099
    /\ ValueOf(ds, 5, 6) \in 1..12
    /\ ValueOf(ds, 7, 8) \in 1..lastDay(ValueOf(ds, 5, 6), ValueOf(ds, 1, 4))

\* The digits 9..14 are HHMMSS.
EndsWithTime(ds) ==
    /\ Len(ds) = 14
    /\ HasValue(SubSeq(ds, 9, 14))
    /\ ValueOf(ds, 9, 10) \in 0..23
    /\ ValueOf(ds, 11, 12) \in 0..59
    /\ ValueOf(ds, 13, 14) \in 0..59

ThirtyOne(m, y) == 31

\* The three shapes of a timestamp, the day of the date up to lastDay.
IsTimestamp(v, lastDay(_, _)) ==
    LET ds == digits_of(v)
    IN  \/ InFullRange(ds, 10)
        \/ InFullRange(ds, 13)
        \/ Len(ds) = 14 /\ StartsWithDate(ds, lastDay) /\ EndsWithTime(ds)

KnownPrefixes ==
    {D(<<1, 1, 0>>), D(<<1, 2, 0>>), D(<<1, 5, 0>>), D(<<1, 9, 0>>),
     D(<<8, 3, 0>>), D(<<1, 0, 0, 2>>), D(<<3, 0, 1>>), D(<<3, 3, 3, 3>>),
     D(<<1, 0, 0>>)}
HasKnownPrefix(v) ==
    \E p \in KnownPrefixes :
        /\ Len(digits_of(v)) >= Len(p)
        /\ SubSeq(digits_of(v), 1, Len(p)) = p

\* 10 digits with a value in [1600000000, 1800000000].
InCurrentEra(ds) ==
    /\ Len(ds) = 10
    /\ HasValue(ds)
    /\ int(ds[1]) = 1
    /\ \/ int(ds[2]) \in {6, 7}
       \/ int(ds[2]) = 8 /\ \A i \in 3..10 : int(ds[i]) = 0

\* C17: for a text whose digits start with a known bank prefix,
\* korean_bank_account_valid returns false exactly when the digits are 10
\* with a value in [1600000000, 1800000000], and true otherwise.
PrefixedAccountAccepted ==
    (/\ verifier = "korean_bank_account_valid"
     /\ result # NotCalled
     /\ HasKnownPrefix(text)) =>
        result = Return(~InCurrentEra(digits_of(text)))

\* C17 witness: a prefixed account of 10 digits that not_timestamp takes
\* for a Unix timestamp is accepted.
PrefixedUnixSecondsAccepted ==
    /\ verifier = "korean_bank_account_valid"
    /\ HasKnownPrefix(text)
    /\ InFullRange(digits_of(text), 10)
    /\ not_timestamp(text) = Return(FALSE)
    /\ result = Return(TRUE)

\* The digits hold k consecutive digits each one greater than the one
\* before it.
HasSequentialRun(ds, k) ==
    \E a \in 1..(Len(ds) - k + 1) :
        \A i \in 1..(k - 1) :
            /\ isdecimal(ds[a + i]) /\ isdecimal(ds[a + i - 1])
            /\ int(ds[a + i]) = int(ds[a + i - 1]) + 1

\* C18: on a text with a digit and no known prefix,
\* korean_bank_account_valid returns false whenever not_timestamp does, and
\* returns what not_timestamp returns when the digits hold no run of
\* sequential digits.
UnprefixedAccountChecksTimestamp ==
    (/\ verifier = "korean_bank_account_valid"
     /\ result # NotCalled
     /\ digits_of(text) # <<>>
     /\ ~HasKnownPrefix(text)) =>
        /\ not_timestamp(text) = Return(FALSE) => result = Return(FALSE)
        /\ ~HasSequentialRun(digits_of(text), 6) => result = not_timestamp(text)

\* The same on digits that all have a value.
UnprefixedAccountChecksTimestampOnValues ==
    (/\ verifier = "korean_bank_account_valid"
     /\ result # NotCalled
     /\ digits_of(text) # <<>>
     /\ HasValue(digits_of(text))
     /\ ~HasKnownPrefix(text)
     /\ ~HasSequentialRun(digits_of(text), 2)) =>
        result = not_timestamp(text)

\* The first half of C18 alone.
UnprefixedAccountRejectsTimestamps ==
    (/\ verifier = "korean_bank_account_valid"
     /\ result # NotCalled
     /\ digits_of(text) # <<>>
     /\ ~HasKnownPrefix(text)
     /\ not_timestamp(text) = Return(FALSE)) =>
        result = Return(FALSE)

\* C19: on a text with no known prefix and at least 10 digits,
\* korean_bank_account_valid returns false whenever the digits hold 6
\* consecutive digits each one greater than the one before it.
SequentialRunOfSixRejected ==
    (/\ verifier = "korean_bank_account_valid"
     /\ result # NotCalled
     /\ ~HasKnownPrefix(text)
     /\ Len(digits_of(text)) >= 10
     /\ HasSequentialRun(digits_of(text), 6)) =>
        result = Return(FALSE)

\* A run of 7 digits is rejected, on digits that all have a value.
SequentialRunOfSevenRejected ==
    (/\ verifier = "korean_bank_account_valid"
     /\ result # NotCalled
     /\ ~HasKnownPrefix(text)
     /\ Len(digits_of(text)) >= 10
     /\ HasValue(digits_of(text))
     /\ HasSequentialRun(digits_of(text), 7)) =>
        result = Return(FALSE)

\* The text holds one of the separators '-', ' ', '/'.
HasSeparator(v) == \E i \in 1..Len(v) : v[i] \in {"-", " ", "/"}

\* C20: on a text with a separator, generic_number_not_timestamp returns
\* false only when the text has at least 14 digits that start with a date
\* YYYYMMDD (year 1900..2099, month 1..12, day 1..31), and true on every
\* other text with a separator.
SeparatedNumberAccepted ==
    (/\ verifier = "generic_number_not_timestamp"
     /\ result # NotCalled
     /\ HasSeparator(text)) =>
        LET dated == /\ Len(digits_of(text)) >= 14
                     /\ StartsWithDate(digits_of(text), ThirtyOne)
        IN  /\ result = Return(FALSE) => dated
            /\ ~dated => result = Return(TRUE)

\* C20 witness: 10 digits in the Unix range, written with a separator,
\* are accepted.
SeparatedUnixSecondsAccepted ==
    /\ verifier = "generic_number_not_timestamp"
    /\ HasSeparator(text)
    /\ InFullRange(digits_of(text), 10)
    /\ result = Return(TRUE)

\* C21: on a text with none of the separators '-', ' ', '/',
\* generic_number_not_timestamp returns what not_timestamp returns.
UnseparatedNumberCheckedAsTimestamp ==
    (/\ verifier = "generic_number_not_timestamp"
     /\ result # NotCalled
     /\ ~HasSeparator(text)) =>
        result = not_timestamp(text)

\* The two agree on an unseparated text of fewer than 14 digits.
UnseparatedShortNumberCheckedAsTimestamp ==
    (/\ verifier = "generic_number_not_timestamp"
     /\ result # NotCalled
     /\ ~HasSeparator(text)
     /\ Len(digits_of(text)) < 14) =>
        result = not_timestamp(text)

\* The reference set the call of a postal-code verifier works with.
ReferenceSet == DATA_CACHE[data_file(verifier)]

\* The first 5 digits of v when v has n digits.
BaseZip(v) == SubSeq(digits_of(v), 1, 5)

\* What the populated reference set S says of v.
InReferenceSet(fn, v, S) ==
    CASE fn = "korean_zipcode_valid" ->
             v \in S \/ SelectSeq(v, LAMBDA c : c # "-") \in S
      [] fn = "us_zipcode_valid" ->
             /\ Len(digits_of(v)) \in {5, 9}
             /\ BaseZip(v) \in S

\* C22: with a populated reference set korean_zipcode_valid(v) is true
\* exactly when v or v without its hyphens is in the set, and
\* us_zipcode_valid(v) exactly when v has 5 digits that are in the set or 9
\* digits whose first 5 are; every other text is rejected.
PopulatedSetDecidesZipcode ==
    (/\ verifier \in Verifiers
     /\ result # NotCalled
     /\ ReferenceSet # {}) =>
        result = Return(InReferenceSet(verifier, text, ReferenceSet))

\* C22 witness: a code the heuristics would accept is rejected because the
\* populated set does not hold it.
PlausibleZipcodeOutsideSetRejected ==
    /\ verifier \in Verifiers
    /\ ReferenceSet # {}
    /\ heuristic(verifier, text) = Return(TRUE)
    /\ result = Return(FALSE)

\* The 5 digits are all the same digit.
AllSameDigit(z) == \A i \in 1..5 : z[i] = z[1]

\* The 5 digits go up by 1 each (step = 1) or down by 1 each (step = -1).
IsRun(z, step) == \A i \in 2..5 : int(z[i]) = int(z[i - 1]) + step

\* The 5 digits are a number that no rule of the heuristics rejects.
PlausibleZip(z) ==
    /\ HasValue(z)
    /\ ~AllSameDigit(z)
    /\ ~IsRun(z, 1) /\ ~IsRun(z, -1)
    /\ \E i \in 2..5 : int(z[i]) # 0

\* What the heuristics say of v.
HeuristicAccepts(fn, v) ==
    CASE fn = "korean_zipcode_valid" ->
             Len(digits_of(v)) = 5 /\ PlausibleZip(BaseZip(v))
      [] fn = "us_zipcode_valid" ->
             Len(digits_of(v)) \in {5, 9} /\ PlausibleZip(BaseZip(v))

\* C23: with an empty reference set korean_zipcode_valid accepts exactly
\* the texts with 5 digits that are not all the same digit, not a run up or
\* down by 1 and not a multiple of 10000; us_zipcode_valid does the same
\* with the first 5 digits of a text of 5 or 9 digits, and a text with
\* another number of digits gets false.
EmptySetLeavesHeuristics ==
    (/\ verifier \in Verifiers
     /\ result # NotCalled
     /\ ReferenceSet = {}) =>
        /\ (result = Return(TRUE)) <=> HeuristicAccepts(verifier, text)
        /\ Len(digits_of(text)) \notin {5, 9} => result = Return(FALSE)

\* C23 witness: without reference data a ZIP+4 is accepted on its first 5
\* digits.
ZipPlusFourAcceptedByHeuristics ==
    /\ verifier = "us_zipcode_valid"
    /\ ReferenceSet = {}
    /\ Len(digits_of(text)) = 9
    /\ Len(text) > 9
    /\ result = Return(TRUE)

\* All characters of v are the same character.
AllIdentical(v) == Len(v) >= 1 /\ \A i \in 1..Len(v) : v[i] = v[1]

\* The digits of v are at least 4 and each is the one before it plus step.
MonotoneDigits(v, step) ==
    LET ds == digits_of(v)
    IN  /\ Len(ds) >= 4
        /\ HasValue(ds)
        /\ \A i \in 2..Len(ds) : int(ds[i]) = int(ds[i - 1]) + step

\* The character i of v is the one a period of p characters gives it.
Periodic(v, p) == \A i \in 1..Len(v) : v[i] = v[((i - 1) % p) + 1]

\* v is its first p characters written two or more times over.
ExactTile(v, p) == Len(v) >= 2 * p /\ Len(v) % p = 0 /\ Periodic(v, p)

\* The patterns of v that the claim names.
IsRepeating(v) ==
    \/ AllIdentical(v)
    \/ MonotoneDigits(v, 1) \/ MonotoneDigits(v, -1)
    \/ ExactTile(v, 2) \/ ExactTile(v, 3)

\* C24: not_repeating_pattern(v) returns false when the characters of v
\* are all identical, when v has at least 4 digits that go up by 1 or down
\* by 1, or when v is an exact tile of its first 2 or 3 characters, and
\* true for every other text.
RepeatingPatternRejected ==
    (verifier = "not_repeating_pattern" /\ result # NotCalled) =>
        result = Return(~IsRepeating(text))

\* The first case of C24 alone: a text of identical characters gets false.
IdenticalCharactersRejected ==
    (/\ verifier = "not_repeating_pattern"
     /\ result # NotCalled
     /\ AllIdentical(text)) =>
        result = Return(FALSE)

\* The last case of C24 alone, on digits that all have a value: a text
\* without any of the patterns gets true.
PatternlessTextAccepted ==
    (/\ verifier = "not_repeating_pattern"
     /\ result # NotCalled
     /\ HasValue(digits_of(text))
     /\ ~IsRepeating(text)) =>
        result = Return(TRUE)

\* What holds: from 4 characters on, with digits that all have a value,
\* false is returned exactly for identical characters, monotone digits, a
\* period of 2, and from 6 characters on a period of 3.
LongTextRejectedByPeriod ==
    (/\ verifier = "not_repeating_pattern"
     /\ result # NotCalled
     /\ Len(text) >= 4
     /\ HasValue(digits_of(text))) =>
        result = Return(~(\/ AllIdentical(text)
                          \/ MonotoneDigits(text, 1) \/ MonotoneDigits(text, -1)
                          \/ Periodic(text, 2)
                          \/ Len(text) >= 6 /\ Periodic(text, 3)))

\* The positions of the dots of v, and part k of v between them.
Dots(v) == {i \in 1..Len(v) : v[i] = "."}
DotAt(v, k) ==
    IF k = 0 THEN 0
    ELSE IF k > Cardinality(Dots(v)) THEN Len(v) + 1
    ELSE CHOOSE i \in Dots(v) : Cardinality({j \in Dots(v) : j < i}) = k - 1
Part(v, k) == SubSeq(v, DotAt(v, k - 1) + 1, DotAt(v, k) - 1)

\* An integer: decimal digits, at least one, a sign before them or not.
IsInteger(s) ==
    \/ Len(s) >= 1 /\ HasValue(s)
    \/ Len(s) >= 2 /\ s[1] \in {"+", "-"} /\ HasValue(Tail(s))
IntegerOf(s) ==
    IF s[1] = "-" THEN 0 - ValueOf(s, 2, Len(s))
    ELSE IF s[1] = "+" THEN ValueOf(s, 2, Len(s))
    ELSE ValueOf(s, 1, Len(s))

\* v is four integers in 0..255 with dots between them.
IsDottedQuad(v) ==
    /\ Cardinality(Dots(v)) = 3
    /\ \A k \in 1..4 : IsInteger(Part(v, k)) /\ IntegerOf(Part(v, k)) \in 0..255
Octet(v, k) == IntegerOf(Part(v, k))

\* The address a.b.c.d lies in one of the reserved blocks.
InReservedBlock(a, b, c) ==
    \/ a = 0                                \* 0/8
    \/ a = 10                               \* 10/8
    \/ a = 127                              \* 127/8
    \/ a = 169 /\ b = 254                   \* 169.254/16
    \/ a = 172 /\ b \div 16 = 1             \* 172.16/12
    \/ a = 192 /\ b = 0 /\ c = 2            \* 192.0.2/24
    \/ a = 192 /\ b = 168                   \* 192.168/16
    \/ a = 198 /\ b = 51 /\ c = 100         \* 198.51.100/24
    \/ a = 203 /\ b = 0 /\ c = 113          \* 203.0.113/24
    \/ a \div 16 = 14                       \* 224/4
    \/ a \div 16 = 15                       \* 240/4

IsPublicAddress(v) ==
    /\ IsDottedQuad(v)
    /\ ~InReservedBlock(Octet(v, 1), Octet(v, 2), Octet(v, 3))

\* C25: ipv4_public(v) is true exactly when v is four dot-separated
\* integers in 0..255 and the address lies in none of the reserved blocks;
\* every other text gets false, and no text an exception.
PublicAddressesAccepted ==
    (verifier = "ipv4_public" /\ result # NotCalled) =>
        result = Return(IsPublicAddress(text))

\* What holds of every text: nothing is raised, and an address in a
\* reserved block or a text the code cannot read as four numbers in range
\* is rejected.
ReservedAddressRejected ==
    (verifier = "ipv4_public" /\ result # NotCalled) =>
        /\ result.exc = "none"
        /\ IsDottedQuad(text) => result = Return(IsPublicAddress(text))

\* The first position of character c in v, 0 when v does not hold it.
FirstOf(v, c) ==
    IF \A i \in 1..Len(v) : v[i] # c THEN 0
    ELSE CHOOSE i \in 1..Len(v) : v[i] = c /\ \A j \in 1..(i - 1) : v[j] # c

\* s without the blanks it starts with.
RECURSIVE LeftTrim(_)
LeftTrim(s) ==
    IF s # <<>> /\ s[1] \in {" ", "\n"} THEN LeftTrim(Tail(s)) ELSE s

\* A number of 1 to n digits.
IsNumber(s, n) == Len(s) \in 1..n /\ HasValue(s)

\* The fields of a text written degrees, minutes, seconds, direction, each
\* after the mark of the one before it (blanks may follow a mark).
DegreesField(v) == SubSeq(v, 1, FirstOf(v, "deg") - 1)
MinutesField(v) ==
    LeftTrim(SubSeq(v, FirstOf(v, "deg") + 1, FirstOf(v, "prime") - 1))
SecondsField(v) ==
    LeftTrim(SubSeq(v, FirstOf(v, "prime") + 1, FirstOf(v, "dprime") - 1))
DirectionField(v) == LeftTrim(SubSeq(v, FirstOf(v, "dprime") + 1, Len(v)))

\* The seconds before the decimal point.
WholeSeconds(sec) ==
    IF FirstOf(sec, ".") = 0 THEN sec ELSE SubSeq(sec, 1, FirstOf(sec, ".") - 1)

\* Seconds are a number of 1 or 2 digits, decimals after a point or none.
IsSeconds(sec) ==
    /\ IsNumber(WholeSeconds(sec), 2)
    /\ FirstOf(sec, ".") # 0 =>
           LET decimals == SubSeq(sec, FirstOf(sec, ".") + 1, Len(sec))
           IN  Len(decimals) >= 1 /\ HasValue(decimals)

\* The whole text is one coordinate (the direction in either case).
IsCoordinate(v) ==
    /\ 0 < FirstOf(v, "deg")
    /\ FirstOf(v, "deg") < FirstOf(v, "prime")
    /\ FirstOf(v, "prime") < FirstOf(v, "dprime")
    /\ IsNumber(DegreesField(v), 3)
    /\ IsNumber(MinutesField(v), 2)
    /\ IsSeconds(SecondsField(v))
    /\ Len(DirectionField(v)) = 1
    /\ DirectionField(v)[1] \in {"N", "S", "E", "W", "n", "s", "e", "w"}

Number(s) == ValueOf(s, 1, Len(s))

\* The values of the coordinate are within their ranges.
InCoordinateRanges(v) ==
    /\ Number(MinutesField(v)) <= 59
    /\ Number(WholeSeconds(SecondsField(v))) < 60
    /\ Number(DegreesField(v)) <=
           IF DirectionField(v)[1] \in {"N", "S", "n", "s"} THEN 90 ELSE 180

\* C26: dms_coordinate(v) is true exactly when v is a coordinate
\* degrees, minutes, seconds, direction with minutes at most 59, seconds
\* below 60, a direction N, S, E or W and degrees at most 90 for N and S
\* and at most 180 for E and W; every other text gets false.
CoordinateAcceptedWithinRanges ==
    (verifier = "dms_coordinate" /\ result # NotCalled) =>
        result = Return(IsCoordinate(text) /\ InCoordinateRanges(text))

\* One half of C26: a text that is no coordinate gets false.
OnlyCoordinatesAccepted ==
    (/\ verifier = "dms_coordinate"
     /\ result # NotCalled
     /\ ~IsCoordinate(text)) =>
        result = Return(FALSE)

\* The other half of C26: a coordinate gets true exactly within the ranges.
CoordinateCheckedAgainstRanges ==
    (/\ verifier = "dms_coordinate"
     /\ result # NotCalled
     /\ IsCoordinate(text)) =>
        result = Return(InCoordinateRanges(text))

\* What holds: a value beyond its range is rejected, and so is a text that
\* does not start with a coordinate.
OutOfRangeCoordinateRejected ==
    (/\ verifier = "dms_coordinate"
     /\ result # NotCalled
     /\ IsCoordinate(text)
     /\ ~InCoordinateRanges(text)) =>
        result = Return(FALSE)

\* Natural numbers of any size: the digits in base 10000, lowest first.
RECURSIVE BigTimes(_, _, _)
BigTimes(a, m, carry) ==
    IF a = <<>>
    THEN IF carry = 0 THEN <<>>
         ELSE <<carry % 10000>> \o BigTimes(<<>>, m, carry \div 10000)
    ELSE <<(a[1] * m + carry) % 10000>>
             \o BigTimes(Tail(a), m, (a[1] * m + carry) \div 10000)

\* a * m^k
RECURSIVE BigTimesPower(_, _, _)
BigTimesPower(a, m, k) ==
    IF k = 0 \/ a = <<>> THEN a ELSE BigTimes(BigTimesPower(a, m, k - 1), m, 0)

BigAtMost(a, b) ==
    \/ Len(a) < Len(b)
    \/ /\ Len(a) = Len(b)
       /\ \/ a = b
          \/ LET top == CHOOSE i \in 1..Len(a) :
                            a[i] # b[i] /\ \A j \in (i + 1)..Len(a) : a[j] = b[j]
             IN  a[top] < b[top]

\* n^n and 16^n, three and four factors at a time.
PowerOfLength(n) ==
    BigTimesPower(BigTimesPower(<<1>>, n * n * n, n \div 3), n, n % 3)
PowerOfSixteen(n) ==
    BigTimesPower(BigTimesPower(<<1>>, 16 * 16 * 16 * 16, n \div 4), 16, n % 4)

\* The product of c^c over the characters S of v with their counts c,
\* times a.
RECURSIVE TimesCounts(_, _, _)
TimesCounts(a, v, S) ==
    IF S = {} THEN a
    ELSE LET x == CHOOSE y \in S : TRUE
             c == Cardinality({i \in 1..Len(v) : v[i] = x})
             b == BigTimesPower(a, c * c, c \div 2)
         IN  IF b = <<>> THEN b
             ELSE TimesCounts(BigTimesPower(b, c, c % 2), v, S \ {x})

\* The Shannon entropy H = - sum (c/n) log2 (c/n) of the character
\* frequencies of v is at least 4 bits; with n the length of v this is
\* sum c log2 c <= n log2 n - 4 n, that is 16^n * product c^c <= n^n.
EntropyAtLeast4(v) ==
    BigAtMost(TimesCounts(PowerOfSixteen(Len(v)), v, {v[i] : i \in 1..Len(v)}),
              PowerOfLength(Len(v)))

\* v is long enough and holds only characters of a token.
TokenCharacters ==
    {"A", "B", "C", "D", "E", "F", "G", "H", "I", "J", "K", "L", "M", "N",
     "O", "P", "Q", "R", "S", "T", "U", "V", "W", "X", "Y", "Z",
     "a", "b", "c", "d", "e", "f", "g", "h", "i", "j", "k", "l", "m", "n",
     "o", "p", "q", "r", "s", "t", "u", "v", "w", "x", "y", "z",
     "0", "1", "2", "3", "4", "5", "6", "7", "8", "9",
     "_", "-", "+", "/", ".", "="}
IsTokenShaped(v) ==
    Len(v) >= 20 /\ \A i \in 1..Len(v) : v[i] \in TokenCharacters

KnownPrefixNeverRejected ==
    (verifier = "korean_bank_account_valid" /\ HasKnownPrefix(text)) =>
        /\ ~InCurrentEra(digits_of(text))
        /\ result # NotCalled => result = Return(TRUE)

\* C28 witness: 14 digits that are a date and a time of day are accepted
\* because they start with a known prefix.
PrefixedDatetimeAccepted ==
    /\ verifier = "korean_bank_account_valid"
    /\ HasKnownPrefix(text)
    /\ Len(digits_of(text)) = 14
    /\ not_timestamp(text) = Return(FALSE)
    /\ result = Return(TRUE)

Interleaved(t, u) ==
    /\ t # u
    /\ removal[t].pc = "done" /\ removal[u].pc = "done"
    /\ removal[t].name = removal[u].name
    /\ removal[t].found /\ removal[u].found
    /\ regOp.seq = 0

\* C30: two unregister calls for the same bound name, the membership test
\* of one running between the membership test and the delete of the other,
\* both complete without raising, exactly one returns true, and the name is
\* unbound afterwards.
InterleavedUnregistersComplete ==
    \A t, u \in Removers :
        Interleaved(t, u) =>
            /\ removal[t].outcome.exc = "none" /\ removal[u].outcome.exc = "none"
            /\ removal[t].outcome.ret # removal[u].outcome.ret
            /\ removal[t].name \notin DOMAIN VERIFICATION_FUNCTIONS

\* What holds of them: the name is unbound afterwards and exactly one call
\* returns true.
InterleavedUnregistersUnbind ==
    \A t, u \in Removers :
        Interleaved(t, u) =>
            /\ removal[t].name \notin DOMAIN VERIFICATION_FUNCTIONS
            /\ (removal[t].outcome = Return(TRUE)) # (removal[u].outcome = Return(TRUE))

\* A call raises only when another call found the same name bound.
SerialisedUnregistersComplete ==
    \A t \in Removers : removal[t].outcome.exc = "KeyError" =>
        \E u \in Removers : u # t /\ removal[u].name = removal[t].name
                               /\ removal[u].found

====
